---- MODULE Spec2Model ----
(***************************************************************************)
(* Model of the calendar reconciliation engine of                          *)
(* fogis-calendar-phonebook-sync: sync_calendar, find_event_by_match_id,   *)
(* delete_orphaned_events and main (fogis_calendar_sync.py) and            *)
(* calendar_sync_callback (app.py), run by concurrent threads against one  *)
(* remote calendar.                                                        *)
(*                                                                         *)
(* Time is counted in days.  The remote calendar is the set `events`; a    *)
(* remote call may fail (HttpError), which is an input of the action that  *)
(* issues it.                                                              *)
(***************************************************************************)
EXTENDS Integers, Sequences, FiniteSets, TLC

VARIABLES
    events,            \* the remote calendar: a set of event records
    next_event_id,     \* the id the remote calendar gives to the next inserted event
    pc,                \* per thread: "idle", "loop" (between fixtures), "write"
    ctx,               \* per thread: who called sync_calendar: "direct", "main", "callback"
    queue,             \* per thread: the fixtures of the batch still to process
    cur,               \* per thread: the sync_calendar invocation in progress
    old_matches,       \* per thread: main()'s old_matches dictionary
    batch,             \* per thread: the batch of the caller and the callback's counters
    overlap,           \* per thread: the invocations completed during the current one
    hist,              \* the invocation completed last, until the next lookup starts
    sub,               \* the RedisSubscriber object
    loop,              \* the thread running _listen_for_messages: position and locals
    obs,               \* what was observed of the subscriber's handlers
    svc,               \* the CalendarServiceRedisService object, its threads, the broker
    calc,              \* two observations of one fixture and their hashes
    run,               \* the run of main() or of the callback that started last
    api,               \* the remote calls of the operation observed, and its sleeps
    wire               \* the subscriber's connection: messages delivered, yielded, handled

engineVars == <<events, next_event_id, pc, ctx, queue, cur,
                old_matches, batch, overlap, hist>>

subVars == <<sub, loop, obs>>

svcVars == <<svc, calc, run, api, wire>>

vars == <<events, next_event_id, pc, ctx, queue, cur,
          old_matches, batch, overlap, hist, sub, loop, obs, svc, calc, run, api, wire>>

-----------------------------------------------------------------------------
(* Bounds *)

MaxEvents == 2      \* events the remote calendar creates in one behaviour
MaxChanges == 2     \* entries of payload.detailed_changes
MaxHandled == 1     \* direct calls of _handle_message in one behaviour
MaxMessages == 1    \* messages the read loop receives in one behaviour
MaxFailures == 7    \* exceptions of listen() in one behaviour
MaxOthers == 1      \* of these, exceptions other than ConnectionError
MaxStarts == 1      \* start_subscription calls in one behaviour
MaxThreads == 2     \* read-loop threads one service starts in one behaviour
MaxDrops == 1       \* ConnectionErrors the threads of one service meet
MaxOutages == 1     \* times the broker goes down in one behaviour
MaxOfficials == 2   \* entries of domaruppdraglista of one fixture
MaxDeliveries == 2  \* messages the broker delivers to one connection
Today == 20         \* the day number of datetime.date.today()

-----------------------------------------------------------------------------
(* Program constants and configuration *)

DAYS_TO_KEEP_PAST_EVENTS == 7
SYNC_TAG == "FOGIS_CALENDAR_SYNC"
None == "None"
\* t1 runs every operation; t2 is a second trigger that syncs fixture 1
Threads == {"t1", "t2"}

\* str(match_id) and f"{match_id}" for the numeric ids of the feed
str(n) == CASE n = 1 -> "1" [] n = 2 -> "2" [] n = 3 -> "3" [] OTHER -> "0"

-----------------------------------------------------------------------------
(* Fixtures (match dictionaries) *)

\* an entry of domaruppdraglista; the values of its attributes are numbered
\* in the order of the strings they stand for
Referee(personnamn, epostadress, telefonnummer, adress, mobiltelefon, domarrollkortnamn) ==
    [personnamn |-> personnamn, epostadress |-> epostadress,
     telefonnummer |-> telefonnummer, adress |-> adress,
     mobiltelefon |-> mobiltelefon, domarrollkortnamn |-> domarrollkortnamn]

\* an entry of kontaktpersoner
Contact(lagnamn, personnamn, telefon) ==
    [lagnamn |-> lagnamn, personnamn |-> personnamn, telefon |-> telefon]

\* the attributes of a fixture that the fixtures of the engine do not vary
Details ==
    [lag1namn |-> "Home", lag2namn |-> "Away", tavlingnamn |-> "Division 1",
     matchnr |-> "000001", kontaktpersoner |-> <<>>, domaruppdraglista |-> <<>>]

WithDetails(m, d) ==
    [has_matchid |-> m.has_matchid, matchid |-> m.matchid,
     anlaggningnamn |-> m.anlaggningnamn, tid |-> m.tid,
     lag1namn |-> d.lag1namn, lag2namn |-> d.lag2namn, tavlingnamn |-> d.tavlingnamn,
     matchnr |-> d.matchnr, kontaktpersoner |-> d.kontaktpersoner,
     domaruppdraglista |-> d.domaruppdraglista]

\* tid is "/Date(<ms>)/" when wrapped; day is the day the timestamp falls on
Match(id, venue, day) ==
    WithDetails([has_matchid |-> TRUE, matchid |-> id, anlaggningnamn |-> venue,
                 tid |-> [wrapped |-> TRUE, day |-> day]], Details)

BadTidMatch(id, venue) ==
    WithDetails([has_matchid |-> TRUE, matchid |-> id, anlaggningnamn |-> venue,
                 tid |-> [wrapped |-> FALSE, day |-> 0]], Details)

NoIdMatch(venue, day) ==
    WithDetails([has_matchid |-> FALSE, matchid |-> 0, anlaggningnamn |-> venue,
                 tid |-> [wrapped |-> TRUE, day |-> day]], Details)

NoMatch == WithDetails([has_matchid |-> FALSE, matchid |-> 0, anlaggningnamn |-> None,
                        tid |-> [wrapped |-> FALSE, day |-> 0]], Details)

M1A == Match(1, "Arena A", Today + 1)
M1B == Match(1, "Arena B", Today + 1)
M1Old == Match(1, "Arena A", Today - 10)
M2 == Match(2, "Arena A", Today - 3)
M2Bad == BadTidMatch(2, "Arena A")
M3 == Match(3, "Arena A", Today + 1)
MNoId == NoIdMatch("Arena A", Today + 1)

\* the fixtures each thread invokes sync_calendar with
Fixtures(t) == IF t = "t1" THEN {M1A, M1B, M1Old, M2, M2Bad} ELSE {M1A}

-----------------------------------------------------------------------------
(* The remote calendar *)

NoHash == <<>>

NoEvent == [id |-> 0, matchId |-> None, syncTag |-> None, matchHash |-> NoHash,
            day |-> 0, location |-> None]

\* an event of the same calendar that this integration did not create
ForeignEvent == [id |-> 100, matchId |-> None, syncTag |-> None, matchHash |-> NoHash,
                 day |-> Today - 3, location |-> "Elsewhere"]

\* the entry of referee_data for one referee (lines 171-178)
RefereeData(referee) ==
    [personnamn |-> referee.personnamn, epostadress |-> referee.epostadress,
     telefonnummer |-> referee.telefonnummer, adress |-> referee.adress]

\* the sort key of line 183, compared as Python compares tuples
KeyLess(a, b) ==
    \/ a.personnamn < b.personnamn
    \/ /\ a.personnamn = b.personnamn
       /\ \/ a.epostadress < b.epostadress
          \/ /\ a.epostadress = b.epostadress
             /\ \/ a.telefonnummer < b.telefonnummer
                \/ /\ a.telefonnummer = b.telefonnummer
                   /\ a.adress < b.adress

\* x put into the sorted list after the entries that do not come after it
RECURSIVE Inserted(_, _)
Inserted(x, sorted) ==
    IF sorted = <<>> THEN <<x>>
    ELSE IF KeyLess(x, Head(sorted)) THEN <<x>> \o sorted
    ELSE <<Head(sorted)>> \o Inserted(x, Tail(sorted))

\* a referee_data that is hashed in the order of the feed
RECURSIVE RefereeDataOf_Unsorted(_)
RefereeDataOf_Unsorted(referees) ==
    IF referees = <<>> THEN <<>>
    ELSE <<RefereeData(Head(referees))>> \o RefereeDataOf_Unsorted(Tail(referees))

\* referee_data after referee_data.sort(key=...) (lines 169-184)
RECURSIVE RefereeDataOf(_)
RefereeDataOf(referees) ==
    IF referees = <<>> THEN <<>>
    ELSE Inserted(RefereeData(referees[Len(referees)]),
                  RefereeDataOf(SubSeq(referees, 1, Len(referees) - 1)))

\* sha256 of json.dumps(data, sort_keys=True): one value per data dictionary
generate_match_hash(match) ==
    <<"sha256",
      [lag1namn |-> match.lag1namn, lag2namn |-> match.lag2namn,
       anlaggningnamn |-> match.anlaggningnamn, tid |-> match.tid,
       tavlingnamn |-> match.tavlingnamn, kontaktpersoner |-> match.kontaktpersoner,
       referees |-> RefereeDataOf(match.domaruppdraglista)]>>

\* what sync_calendar writes of one referee into the description (lines 346-352)
RefereeDetails(referee) ==
    [domarrollkortnamn |-> referee.domarrollkortnamn, personnamn |-> referee.personnamn,
     mobiltelefon |-> referee.mobiltelefon, adress |-> referee.adress]

RECURSIVE RefereesDetails(_)
RefereesDetails(referees) ==
    IF referees = <<>> THEN <<>>
    ELSE <<RefereeDetails(Head(referees))>> \o RefereesDetails(Tail(referees))

\* summary, location, start and description of event_body (lines 345-398)
EventContent(match) ==
    [summary |-> <<match.lag1namn, match.lag2namn>>,
     location |-> match.anlaggningnamn,
     start |-> match.tid,
     description |-> [matchnr |-> match.matchnr, tavlingnamn |-> match.tavlingnamn,
                      referees |-> RefereesDetails(match.domaruppdraglista),
                      contacts |-> match.kontaktpersoner,
                      matchid |-> match.matchid]]

TidParses(tid) == tid.wrapped

\* int(match["tid"][6:-2]) / 1000 -> datetime
ParseTid(tid) == tid.day

\* an event body that is not stamped with the hash of the fixture
EventBody_NoHash(match) ==
    [matchId |-> str(match.matchid),
     syncTag |-> SYNC_TAG,
     matchHash |-> NoHash,
     day |-> ParseTid(match.tid),
     location |-> match.anlaggningnamn]

\* event_body of sync_calendar
EventBody(match) ==
    [matchId |-> str(match.matchid),
     syncTag |-> SYNC_TAG,
     matchHash |-> generate_match_hash(match),
     day |-> ParseTid(match.tid),
     location |-> match.anlaggningnamn]

WithId(body, id) ==
    [id |-> id, matchId |-> body.matchId, syncTag |-> body.syncTag,
     matchHash |-> body.matchHash, day |-> body.day, location |-> body.location]

\* a lower bound that ignores the window it is given
TimeMin_Fixed(days) == Today - DAYS_TO_KEEP_PAST_EVENTS

\* timeMin of both list calls: midnight of today - days
TimeMin(days) == Today - days

\* events().list(privateExtendedProperty="matchId=<id>", timeMin, orderBy="startTime")
ListByMatchId(evs, match_id, days) ==
    {e \in evs : e.matchId = str(match_id) /\ e.day >= TimeMin(days)}

\* the candidates for events[0]: the earliest listed events
FirstByStartTime(listed) ==
    {e \in listed : \A o \in listed : e.day <= o.day}

\* find_event_by_match_id: the events it may return (NoEvent for None)
find_event_by_match_id(evs, match_id, fail) ==
    IF fail \/ ListByMatchId(evs, match_id, DAYS_TO_KEEP_PAST_EVENTS) = {}
    THEN {NoEvent}
    ELSE FirstByStartTime(ListByMatchId(evs, match_id, DAYS_TO_KEEP_PAST_EVENTS))

-----------------------------------------------------------------------------
(* Records of the invocations *)

NoCur == [match |-> NoMatch, found |-> NoEvent, hadEvent |-> FALSE,
          repeats |-> FALSE, lookupFailed |-> FALSE]

\* matches: the batch; throws: the fixture ids whose remote write call raises
\* while the batch is processed; before: the calendar when the callback started
NoBatch == [matches |-> <<>>, throws |-> {}, before |-> {}, processed |-> 0,
            failed |-> 0, attempted |-> 0]

\* sync_calendar has no return statement: every path returns None
SyncCalendarReturn == None

\* `if success:` of calendar_sync_callback
Truthy(v) == v = "True"

Bool(b) == IF b THEN "True" ELSE "False"

\* the events stamped with the id of `match`
EventsOf(evs, match) == {e \in evs : e.matchId = str(match.matchid)}

\* what a thread in flight knows of the invocations completed meanwhile:
\* any at all, and a sync_calendar of its own fixture id without a failed call
NoOverlap == [any |-> FALSE, same |-> FALSE]

\* What hist remembers of a completed invocation:
\*   op, match, F, days   the operation and its arguments
\*   found                the lookup result of sync_calendar
\*   calls                the remote write calls issued
\*   deleted              the events a sweep deleted
\*   before, after        the calendar before and after a sweep or a callback
\*   hadEvent             an event of the fixture id existed at the lookup
\*   count                the events of the fixture id at the return
\*   hashAfter            the hash stored in the event found or inserted
\*   ret                  the value returned
\*   overlapped           the invocations that completed while it ran
\*   repeats              it repeats the invocation completed just before
\*   failed               a remote call of it failed
\*   note                 the path taken
\*   attempted            the sync_calendar calls a callback made
\*   throws               the fixture ids whose remote write raised meanwhile
BaseEntry ==
    [op |-> None, match |-> NoMatch, F |-> <<>>, days |-> 0, found |-> NoEvent,
     calls |-> {}, deleted |-> {}, before |-> {}, after |-> {},
     hadEvent |-> FALSE, count |-> 0, hashAfter |-> {}, ret |-> None,
     overlapped |-> NoOverlap, repeats |-> FALSE, failed |-> FALSE, note |-> None,
     attempted |-> 0, throws |-> {}]

\* the invocation that returned just before this one started was
\* sync_calendar of the same, unchanged fixture, run alone and without a
\* failed call on a calendar that had no event of its id
Repeats(h, match) ==
    /\ h # <<>>
    /\ h[1].op = "sync_calendar"
    /\ h[1].match = match
    /\ ~h[1].hadEvent
    /\ ~h[1].failed
    /\ ~h[1].overlapped.any

\* the ids of the events an invocation found or wrote
Targets(found, calls) ==
    {c.eventId : c \in calls} \cup (IF found = NoEvent THEN {} ELSE {found.id})

SyncEntry(t, c, calls, after, note) ==
    [BaseEntry EXCEPT
        !.op = "sync_calendar", !.match = c.match, !.found = c.found,
        !.calls = calls, !.hadEvent = c.hadEvent,
        !.count = Cardinality(EventsOf(after, c.match)),
        !.hashAfter = {e.matchHash : e \in {x \in after : x.id \in Targets(c.found, calls)}},
        !.ret = SyncCalendarReturn, !.overlapped = overlap[t],
        !.repeats = c.repeats,
        !.failed = c.lookupFailed \/ \E x \in calls : ~x.ok,
        !.note = note]

Done(op, id, failed) == [op |-> op, id |-> id, failed |-> failed]

\* thread t completed the invocation d: it overlapped every invocation in flight
OverlapAfterCompletion(t, d) ==
    [u \in Threads |->
        IF u = t THEN NoOverlap
        ELSE IF pc[u] = "write"
        THEN [any |-> TRUE,
              same |-> overlap[u].same
                         \/ (d.op = "sync_calendar" /\ ~d.failed
                               /\ d.id = str(cur[u].match.matchid))]
        ELSE overlap[u]]

-----------------------------------------------------------------------------
(* calendar_sync_callback: the import and the batch result *)

\* the names fogis_calendar_sync.py defines or imports at module level
ModuleNames ==
    {"authorize_google_calendar", "generate_match_hash", "check_calendar_exists",
     "find_event_by_match_id", "delete_calendar_events", "delete_orphaned_events",
     "sync_calendar", "main", "process_referees", "test_google_contacts_connection",
     "config_dict", "auth_server", "token_manager"}

\* from fogis_calendar_sync import (find_event_by_match_id, generate_calendar_hash, sync_calendar)
ImportedNames == {"find_event_by_match_id", "generate_calendar_hash", "sync_calendar"}

\* a name the module lacks raises ImportError
ImportSucceeds == ImportedNames \subseteq ModuleNames

\* return processed > 0 or (processed == 0 and failed == 0)
BatchResult(b) == b.processed > 0 \/ (b.processed = 0 /\ b.failed = 0)

\* processed / failed after sync_calendar returned v
CountResult(b, v) ==
    IF Truthy(v) THEN [b EXCEPT !.processed = @ + 1, !.attempted = @ + 1]
                 ELSE [b EXCEPT !.failed = @ + 1, !.attempted = @ + 1]

CallbackEntry(b, after, ret, note) ==
    [BaseEntry EXCEPT
        !.op = "calendar_sync_callback", !.F = b.matches, !.throws = b.throws,
        !.before = b.before, !.after = after, !.ret = Bool(ret),
        !.attempted = b.attempted, !.note = note]

-----------------------------------------------------------------------------
(* The loops of main and of calendar_sync_callback *)

DictPut(d, k, v) == {p \in d : p[1] # k} \cup {<<k, v>>}

\* The loop of caller c goes on to the fixtures `rest` with batch record b and
\* dictionary om; h is hist so far and evs the calendar.  When no fixture is
\* left the caller returns: the callback with its batch result.
Advance(t, c, b, om, h, rest, evs) ==
    LET finished == rest = <<>>
    IN /\ queue' = [queue EXCEPT ![t] = rest]
       /\ pc' = [pc EXCEPT ![t] = IF finished THEN "idle" ELSE "loop"]
       /\ ctx' = [ctx EXCEPT ![t] = IF finished THEN None ELSE c]
       /\ batch' = [batch EXCEPT ![t] = IF finished THEN NoBatch ELSE b]
       /\ old_matches' = [old_matches EXCEPT ![t] = IF finished THEN {} ELSE om]
       /\ hist' = IF finished /\ c = "callback"
                  THEN <<CallbackEntry(b, evs, BatchResult(b), "done")>>
                  ELSE h

\* sync_calendar(match) returned to caller c
Continue(t, c, h, match, rest, evs) ==
    Advance(t, c,
            IF c = "callback" THEN CountResult(batch[t], SyncCalendarReturn)
                              ELSE batch[t],
            IF c = "main"
                THEN DictPut(old_matches[t], str(match.matchid), generate_match_hash(match))
                ELSE old_matches[t],
            h, rest, evs)

-----------------------------------------------------------------------------
(* sync_calendar *)

\* Lines 337-415: hash, start time, event body and the lookup.  An unparseable
\* tid raises inside the try block and sync_calendar returns without a call.
BeginSync(t, c, r, fail, rest) ==
    LET start == [match |-> r, found |-> NoEvent,
                  hadEvent |-> EventsOf(events, r) # {},
                  repeats |-> Repeats(hist, r), lookupFailed |-> FALSE]
    IN IF ~TidParses(r.tid)
       THEN /\ Continue(t, c, <<SyncEntry(t, start, {}, events, "data_error")>>,
                        r, rest, events)
            /\ overlap' = OverlapAfterCompletion(t, Done("sync_calendar", str(r.matchid), FALSE))
            /\ UNCHANGED <<events, next_event_id, cur>>
       ELSE /\ \E f \in find_event_by_match_id(events, r.matchid, fail) :
                 cur' = [cur EXCEPT ![t] = [start EXCEPT !.found = f,
                                                         !.lookupFailed = fail]]
            /\ pc' = [pc EXCEPT ![t] = "write"]
            /\ ctx' = [ctx EXCEPT ![t] = c]
            /\ queue' = [queue EXCEPT ![t] = rest]
            /\ overlap' = [overlap EXCEPT ![t] = NoOverlap]
            /\ hist' = <<>>
            /\ UNCHANGED <<events, next_event_id, batch, old_matches>>

\* a direct invocation sync_calendar(r, service, args)
CallSyncCalendar(t, r, fail) ==
    /\ pc[t] = "idle"
    /\ BeginSync(t, "direct", r, fail, <<>>)

Call(name, id, body, ok) == [call |-> name, eventId |-> id, body |-> body, ok |-> ok]

\* a write step that inserts whatever the lookup found
WriteCalls_AlwaysInsert(evs, nid, f, body, fail) ==
    {Call("insert", nid, WithId(body, nid), ~fail)}

\* the remote calls of lines 417-466 for event body `body` and lookup result f;
\* an update of an event the calendar no longer holds is answered 404
WriteCalls(evs, nid, f, body, fail) ==
    IF f # NoEvent
    THEN IF f.matchHash = body.matchHash
         THEN {}
         ELSE {Call("update", f.id, WithId(body, f.id),
                    ~fail /\ \E e \in evs : e.id = f.id)}
    ELSE {Call("insert", nid, WithId(body, nid), ~fail)}

\* the calendar after the remote calls
Apply(evs, calls) ==
    {e \in evs : \A c \in calls : c.ok => e.id # c.eventId}
        \cup {c.body : c \in {x \in calls : x.ok}}

\* Lines 417-469: skip, update or insert, then return
SyncCalendarWrite(t, fail) ==
    /\ pc[t] = "write"
    /\ LET raises == IF ctx[t] = "callback"
                     THEN str(cur[t].match.matchid) \in batch[t].throws
                     ELSE fail
           calls == WriteCalls(events, next_event_id, cur[t].found,
                               EventBody(cur[t].match), raises)
           after == Apply(events, calls)
           inserted == \E c \in calls : c.call = "insert" /\ c.ok
           e == SyncEntry(t, cur[t], calls, after, "done")
       IN /\ inserted => next_event_id <= MaxEvents
          /\ events' = after
          /\ next_event_id' = IF inserted THEN next_event_id + 1 ELSE next_event_id
          /\ Continue(t, ctx[t], <<e>>, cur[t].match, queue[t], after)
          /\ overlap' = OverlapAfterCompletion(
                            t, Done("sync_calendar", str(cur[t].match.matchid), e.failed))
    /\ cur' = [cur EXCEPT ![t] = NoCur]

-----------------------------------------------------------------------------
(* delete_orphaned_events *)

\* existing_match_ids
MatchIdSet(F) == {str(F[i].matchid) : i \in 1..Len(F)}

\* events().list(privateExtendedProperty="syncTag=<SYNC_TAG>", timeMin)
ListBySyncTag(evs, days) ==
    {e \in evs : e.syncTag = SYNC_TAG /\ e.day >= TimeMin(days)}

\* a sweep that takes every listed event for an orphan
IsOrphan_Everything(e, F) == TRUE

\* `match_id is None or match_id not in existing_match_ids`
IsOrphan(e, F) == e.matchId = None \/ e.matchId \notin MatchIdSet(F)

\* the events delete_orphaned_events(F, days) issues a delete call for
Orphans(evs, F, days, listFail) ==
    IF listFail THEN {} ELSE {e \in ListBySyncTag(evs, days) : IsOrphan(e, F)}

\* the events it deletes: the delete calls that did not raise HttpError
Swept(evs, F, days, listFail, delFail) ==
    {e \in Orphans(evs, F, days, listFail) : e.id \notin delFail}

SweepCalls(evs, F, days, listFail, delFail) ==
    {Call("delete", e.id, e, e.id \notin delFail) : e \in Orphans(evs, F, days, listFail)}

SweepEntry(evs, after, F, days, listFail, delFail) ==
    [BaseEntry EXCEPT
        !.op = "delete_orphaned_events", !.F = F, !.days = days,
        !.calls = SweepCalls(evs, F, days, listFail, delFail),
        !.deleted = evs \ after, !.before = evs, !.after = after,
        !.failed = listFail \/ \E x \in SweepCalls(evs, F, days, listFail, delFail) : ~x.ok,
        !.note = "done"]

\* the fixture lists and retention windows the sweep is invoked with
SweepLists == {<<M1A>>, <<M1A, M2>>}
RetentionDays == {1, DAYS_TO_KEEP_PAST_EVENTS}

EventIds(evs) == {e.id : e \in evs}

\* a direct invocation delete_orphaned_events(service, F, days)
DeleteOrphanedEvents(t, F, days, listFail, delFail) ==
    /\ pc[t] = "idle"
    /\ events' = events \ Swept(events, F, days, listFail, delFail)
    /\ hist' = <<SweepEntry(events, events', F, days, listFail, delFail)>>
    /\ overlap' = OverlapAfterCompletion(t, Done("delete_orphaned_events", None, FALSE))
    /\ UNCHANGED <<next_event_id, pc, ctx, queue, cur, old_matches, batch>>

-----------------------------------------------------------------------------
(* main *)

\* the fetched match lists main runs on
MainLists == {<<>>, <<M1A, M2>>}

\* the comprehension of table_data (lines 516-537) reads match["matchid"] and
\* int(match["tid"][6:-2]) of every fixture, before the try block of line 544
TableDataRaises(F) ==
    \E i \in 1..Len(F) : ~F[i].has_matchid \/ ~TidParses(F[i].tid)

\* delete_calendar_events(service, F) on the calendar evs: the calendars it
\* may leave, and whether match["matchid"] raised.  For each fixture the event
\* the lookup returns is deleted, unless the delete call raises HttpError
RECURSIVE delete_calendar_events(_, _, _)
delete_calendar_events(evs, F, delFail) ==
    IF F = <<>> THEN {[events |-> evs, raised |-> FALSE]}
    ELSE IF ~Head(F).has_matchid THEN {[events |-> evs, raised |-> TRUE]}
    ELSE UNION {delete_calendar_events(
                    IF f = NoEvent \/ f.id \in delFail THEN evs ELSE evs \ {f},
                    Tail(F), delFail) :
                f \in find_event_by_match_id(evs, Head(F).matchid, FALSE)}

\* a main() that goes on with an empty match list
EmptyFetch_Never(F) == FALSE

\* `if not match_list: ... return  # Early exit`
EmptyFetch(F) == F = <<>>

\* main() up to the loop: an empty fetch returns early (line 512) and a
\* fixture that table_data cannot print ends main with the exception;
\* otherwise the orphan sweep with the configured window, with args.delete
\* delete_calendar_events, then the loop over the matches
Main(t, F, delete, listFail, delFail) ==
    /\ pc[t] = "idle"
    /\ IF EmptyFetch(F)
       THEN /\ hist' = <<[BaseEntry EXCEPT !.op = "main", !.note = "empty"]>>
            /\ UNCHANGED <<events, pc, ctx, queue, batch>>
       ELSE IF TableDataRaises(F)
       THEN /\ hist' = <<[BaseEntry EXCEPT !.op = "main", !.F = F, !.note = "table_data"]>>
            /\ UNCHANGED <<events, pc, ctx, queue, batch>>
       ELSE LET swept == events \ Swept(events, F, DAYS_TO_KEEP_PAST_EVENTS,
                                         listFail, delFail)
            IN \E d \in (IF delete THEN delete_calendar_events(swept, F, delFail)
                                   ELSE {[events |-> swept, raised |-> FALSE]}) :
                 /\ events' = d.events
                 /\ hist' = <<SweepEntry(events, swept, F, DAYS_TO_KEEP_PAST_EVENTS,
                                         listFail, delFail)>>
                 /\ IF d.raised
                    THEN UNCHANGED <<pc, ctx, queue, batch>>
                    ELSE /\ pc' = [pc EXCEPT ![t] = "loop"]
                         /\ ctx' = [ctx EXCEPT ![t] = "main"]
                         /\ queue' = [queue EXCEPT ![t] = F]
                         /\ batch' = [batch EXCEPT ![t] = [NoBatch EXCEPT !.matches = F]]
    /\ overlap' = OverlapAfterCompletion(t, Done("delete_orphaned_events", None, FALSE))
    /\ UNCHANGED <<next_event_id, cur, old_matches>>

\* `match_id in old_matches and old_matches[match_id] == match_hash`
OldMatchHit(om, match) ==
    <<str(match.matchid), generate_match_hash(match)>> \in om

-----------------------------------------------------------------------------
(* One iteration of the loop of main (lines 593-605) or of the loop of        *)
(* calendar_sync_callback (lines 159-186), up to the lookup of sync_calendar  *)

LoopStep(t, fail) ==
    /\ pc[t] = "loop"
    /\ LET m == Head(queue[t])
           rest == Tail(queue[t])
       IN IF ~m.has_matchid
          THEN \* match["matchid"] raises KeyError: the callback counts a failure
               \* and goes on, main leaves the loop
               /\ IF ctx[t] = "callback"
                  THEN Advance(t, ctx[t], [batch[t] EXCEPT !.failed = @ + 1],
                               old_matches[t], hist, rest, events)
                  ELSE Advance(t, ctx[t], batch[t], old_matches[t], hist, <<>>, events)
               /\ UNCHANGED <<events, next_event_id, cur, overlap>>
          ELSE IF ctx[t] = "main" /\ OldMatchHit(old_matches[t], m)
          THEN /\ Advance(t, ctx[t], batch[t], old_matches[t], hist, rest, events)
               /\ UNCHANGED <<events, next_event_id, cur, overlap>>
          ELSE BeginSync(t, ctx[t], m, fail, rest)

-----------------------------------------------------------------------------
(* calendar_sync_callback *)

ListData(matches) ==
    [kind |-> "list", matches |-> matches, high_priority |-> FALSE]

DictData(matches, high) ==
    [kind |-> "dict", matches |-> matches, high_priority |-> high]

OtherData == [kind |-> "other", matches |-> <<>>, high_priority |-> FALSE]

\* the enriched dict the subscriber hands over (lines 116-120)
EnvelopeData(matches, detailed_changes, high_priority) ==
    [kind |-> "dict", matches |-> matches, high_priority |-> high_priority,
     detailed_changes |-> detailed_changes]

\* matches that are read from the dict only when it is marked high priority
MatchesOf_HighOnly(data) ==
    IF data.kind = "dict" /\ ~data.high_priority THEN <<>> ELSE data.matches

\* matches = data.get("matches", []) of a dict, matches = data of a list
MatchesOf(data) == data.matches

\* the data the subscriber or a manual trigger hands to the callback
CallbackData ==
    {ListData(<<>>), ListData(<<M1A, M2, M3>>), DictData(<<M1A>>, TRUE),
     DictData(<<MNoId, M2>>, FALSE), OtherData}

\* the remote failures a batch meets: none, or the write of fixture 2 raises
CallbackThrows == {{}, {"2"}}

Batch(data, throws) ==
    [NoBatch EXCEPT !.matches = MatchesOf(data), !.throws = throws, !.before = events]

\* calendar_sync_callback(data) up to the loop over the matches;
\* calendar_service: the module global is set (initialize_google_services succeeded)
CalendarSyncCallback(t, data, calendar_service, throws) ==
    /\ pc[t] = "idle"
    /\ IF ~calendar_service
       THEN /\ hist' = <<CallbackEntry(Batch(data, throws), events, FALSE, "no_service")>>
            /\ UNCHANGED <<pc, ctx, queue, batch>>
       ELSE IF data.kind \notin {"dict", "list"}
       THEN /\ hist' = <<CallbackEntry(Batch(data, throws), events, FALSE, "bad_type")>>
            /\ UNCHANGED <<pc, ctx, queue, batch>>
       ELSE IF MatchesOf(data) = <<>>
       THEN /\ hist' = <<CallbackEntry(Batch(data, throws), events, TRUE, "empty")>>
            /\ UNCHANGED <<pc, ctx, queue, batch>>
       ELSE IF ~ImportSucceeds
       THEN \* ImportError, caught by the outer handler (line 193)
            /\ hist' = <<CallbackEntry(Batch(data, throws), events, FALSE, "import_error")>>
            /\ UNCHANGED <<pc, ctx, queue, batch>>
       ELSE /\ pc' = [pc EXCEPT ![t] = "loop"]
            /\ ctx' = [ctx EXCEPT ![t] = "callback"]
            /\ queue' = [queue EXCEPT ![t] = MatchesOf(data)]
            /\ batch' = [batch EXCEPT ![t] = Batch(data, throws)]
            /\ UNCHANGED hist
    /\ overlap' = OverlapAfterCompletion(t, Done("calendar_sync_callback", None, FALSE))
    /\ UNCHANGED <<events, next_event_id, cur, old_matches>>

-----------------------------------------------------------------------------
(* RedisSubscriber (src/redis_integration/subscriber.py): raw messages *)

Absent == "Absent"

\* one entry of payload.detailed_changes
Change(category, priority) == [category |-> category, priority |-> priority]

ChangeEntries ==
    {Change("time_change", "medium"), Change("date_change", "medium"),
     Change("venue_change", "medium"), Change("referee_change", "low"),
     Change("contact_update", "high"), Change("contact_update", "low")}

\* lists of at most n entries
RECURSIVE ChangeLists(_)
ChangeLists(n) ==
    IF n = 0 THEN {<<>>}
    ELSE ChangeLists(n - 1) \cup
         {Append(l, c) : l \in {x \in ChangeLists(n - 1) : Len(x) = n - 1},
                         c \in ChangeEntries}

\* one entry of payload.matches: the ids of the two organisations are there or not
WireMatch(id, org) == [match_id |-> id, org |-> org, logo_path |-> None]

WireMatches == <<WireMatch(1, TRUE), WireMatch(2, FALSE)>>

NoPayload == [present |-> FALSE, matches |-> <<>>, detailed_changes |-> <<>>,
              has_changes |-> Absent]

Payload(matches, changes, has_changes) ==
    [present |-> TRUE, matches |-> matches, detailed_changes |-> changes,
     has_changes |-> has_changes]

\* message["data"]: text that is not JSON, JSON that is no object, or an object
MalformedData == [json |-> "malformed", type |-> Absent, schema_version |-> Absent,
                  payload |-> NoPayload]

ArrayData == [json |-> "array", type |-> Absent, schema_version |-> Absent,
              payload |-> NoPayload]

ObjectData(type, schema_version, payload) ==
    [json |-> "object", type |-> type, schema_version |-> schema_version,
     payload |-> payload]

SchemaVersions == {Absent, "1.0", "1.5", "2.0", "9.9"}

-----------------------------------------------------------------------------
(* RedisSubscriber: the sync callback seen from the subscriber *)

\* what a callback does when called with the envelope dict and with a list
Callback(on_dict, on_list) ==
    [configured |-> TRUE, on_dict |-> on_dict, on_list |-> on_list]

NoCallback == [configured |-> FALSE, on_dict |-> None, on_list |-> None]

\* calendar_sync_callback of app.py takes both shapes; a callback written for
\* the list alone raises TypeError on the dict; a callback may raise anything
Callbacks ==
    {NoCallback, Callback("True", "True"), Callback("False", "False"),
     Callback("TypeError", "True"), Callback("TypeError", "TypeError"),
     Callback("Exception", "True")}

\* the argument of one callback invocation
Envelope(matches, schema_version, detailed_changes, high_priority) ==
    [shape |-> "dict", matches |-> matches, schema_version |-> schema_version,
     detailed_changes |-> detailed_changes, high_priority |-> high_priority]

FlatList(matches) ==
    [shape |-> "list", matches |-> matches, schema_version |-> None,
     detailed_changes |-> <<>>, high_priority |-> FALSE]

\* the outcome of calendar_sync_callback(arg)
Invoke(cb, arg) == IF arg.shape = "dict" THEN cb.on_dict ELSE cb.on_list

Raises(outcome) == outcome \in {"TypeError", "Exception"}

-----------------------------------------------------------------------------
(* RedisSubscriber: _handle_message and the two schema handlers *)

\* high_priority_categories
HighPriorityCategories_NoReferee == {"time_change", "date_change", "venue_change"}

HighPriorityCategories ==
    {"time_change", "date_change", "venue_change", "referee_change"}

\* the loop of _has_high_priority_changes from entry i on
RECURSIVE HighFrom(_, _)
HighFrom(detailed_changes, i) ==
    IF i > Len(detailed_changes) THEN FALSE
    ELSE IF detailed_changes[i].priority = "high" THEN TRUE
    ELSE IF detailed_changes[i].category \in HighPriorityCategories THEN TRUE
    ELSE HighFrom(detailed_changes, i + 1)

_has_high_priority_changes(detailed_changes) ==
    IF detailed_changes = <<>> THEN FALSE ELSE HighFrom(detailed_changes, 1)

\* generate_combined_logo is asked for when both organisation ids are there
EnrichMatch(match) ==
    IF match.org THEN [match EXCEPT !.logo_path = "logo"] ELSE match

_enrich_matches_with_logos(matches) ==
    [i \in 1..Len(matches) |-> EnrichMatch(matches[i])]

\* data.get("payload", {}) and the three payload.get calls
PayloadOf(data) == IF data.payload.present THEN data.payload ELSE NoPayload

\* a handler that takes every payload for a changed one
HasChanges_Always(payload) == TRUE

\* `not metadata.get("has_changes", False)`
HasChanges(payload) == payload.has_changes = "true"

\* the classes `except Exception` catches
IsException_OnlyTypeError(exc) == exc = "TypeError"

IsException(exc) ==
    exc \in {"JSONDecodeError", "AttributeError", "TypeError", "Exception"}

\* what a try block hands on: the exception unless the handler catches it
Uncaught(exc) == IF exc # None /\ ~IsException(exc) THEN exc ELSE None

ExcOf(outcome) == IF Raises(outcome) THEN outcome ELSE None

\* _handle_enhanced_schema_v2: the callback invocations it makes and the
\* exception that leaves it
_handle_enhanced_schema_v2(s, data) ==
    LET payload == PayloadOf(data)
        matches == IF s.logo_service_client
                   THEN _enrich_matches_with_logos(payload.matches)
                   ELSE payload.matches
        enriched_data == Envelope(matches, "2.0", payload.detailed_changes,
                                  _has_high_priority_changes(payload.detailed_changes))
    IN IF ~HasChanges(payload) THEN [calls |-> <<>>, exc |-> None]
       ELSE IF s.calendar_sync_callback.configured
       THEN [calls |-> <<enriched_data>>,
             exc |-> Uncaught(ExcOf(Invoke(s.calendar_sync_callback, enriched_data)))]
       ELSE [calls |-> <<>>, exc |-> None]

\* _handle_legacy_schema: the callback invocations it makes and the exception
\* that leaves it
_handle_legacy_schema(s, data, schema_version) ==
    LET payload == PayloadOf(data)
        enriched_data == Envelope(payload.matches, schema_version, <<>>, FALSE)
        first == Invoke(s.calendar_sync_callback, enriched_data)
        second == Invoke(s.calendar_sync_callback, FlatList(payload.matches))
    IN IF ~HasChanges(payload) THEN [calls |-> <<>>, exc |-> None]
       ELSE IF s.calendar_sync_callback.configured
       THEN IF first = "TypeError"
            THEN [calls |-> <<enriched_data, FlatList(payload.matches)>>,
                  exc |-> Uncaught(ExcOf(second))]
            ELSE [calls |-> <<enriched_data>>, exc |-> Uncaught(ExcOf(first))]
       ELSE [calls |-> <<>>, exc |-> None]

\* data.get("schema_version", "1.0")
SchemaVersionOf(data) ==
    IF data.schema_version = Absent THEN "1.0" ELSE data.schema_version

\* the branch of _handle_message a match_updates message takes
SchemaRoute_DropUnknown(schema_version) ==
    IF schema_version = "2.0" THEN "v2"
    ELSE IF schema_version \in {"1.5", "1.0"} THEN "v1"
    ELSE "drop"

SchemaRoute(schema_version) ==
    IF schema_version = "2.0" THEN "v2"
    ELSE IF schema_version \in {"1.5", "1.0"} THEN "v1"
    ELSE "unknown"

\* json.loads(message["data"]) and data.get(...): raises unless a JSON object
ParsesAsObject(data) == data.json = "object"

Bump(s, field) ==
    CASE field = "messages_received" -> [s EXCEPT !.messages_received = @ + 1]
      [] field = "messages_processed" -> [s EXCEPT !.messages_processed = @ + 1]
      [] field = "errors" -> [s EXCEPT !.errors = @ + 1]
      [] field = "reconnect_count" -> [s EXCEPT !.reconnect_count = @ + 1]
      [] field = "schema_v2_messages" -> [s EXCEPT !.schema_v2_messages = @ + 1]
      [] field = "schema_v1_messages" -> [s EXCEPT !.schema_v1_messages = @ + 1]
      [] field = "schema_unknown_messages" -> [s EXCEPT !.schema_unknown_messages = @ + 1]
      [] OTHER -> s

\* the try block of _handle_message: the subscriber afterwards, the callback
\* invocations made and the exception raised in the block
MessageBody(s, data) ==
    LET route == SchemaRoute(SchemaVersionOf(data))
        v2 == _handle_enhanced_schema_v2(s, data)
        legacy == _handle_legacy_schema(s, data, SchemaVersionOf(data))
        Finish(s1, h) ==
            [s |-> IF h.exc = None THEN Bump(s1, "messages_processed") ELSE s1,
             calls |-> h.calls, exc |-> h.exc]
    IN IF data.json = "malformed"
       THEN [s |-> s, calls |-> <<>>, exc |-> "JSONDecodeError"]
       ELSE IF ~ParsesAsObject(data)
       THEN [s |-> s, calls |-> <<>>, exc |-> "AttributeError"]
       ELSE IF data.type # "match_updates"
       THEN Finish(s, [calls |-> <<>>, exc |-> None])
       ELSE IF route = "v2" THEN Finish(Bump(s, "schema_v2_messages"), v2)
       ELSE IF route = "v1" THEN Finish(Bump(s, "schema_v1_messages"), legacy)
       ELSE IF route = "unknown" THEN Finish(Bump(s, "schema_unknown_messages"), legacy)
       ELSE Finish(s, [calls |-> <<>>, exc |-> None])

\* a handler that swallows an exception without counting it
_handle_message_Uncounted(s, data) ==
    LET b == MessageBody(Bump(s, "messages_received"), data)
    IN [s |-> b.s, calls |-> b.calls, exc |-> None]

\* _handle_message(message): the subscriber afterwards, the callback
\* invocations made, and the exception that leaves the handler
_handle_message(s, data) ==
    LET b == MessageBody(Bump(s, "messages_received"), data)
    IN IF b.exc # None /\ IsException(b.exc)
       THEN [s |-> Bump(b.s, "errors"), calls |-> b.calls, exc |-> None]
       ELSE b

-----------------------------------------------------------------------------
(* RedisSubscriber: the object, _connect, _reconnect, get_status *)

\* the fields __init__ sets (lines 47-65)
NewSubscriber(callback, logo) ==
    [calendar_sync_callback |-> callback, logo_service_client |-> logo,
     enabled |-> TRUE, client |-> None, pubsub |-> None, running |-> FALSE,
     messages_received |-> 0, messages_processed |-> 0, errors |-> 0,
     reconnect_count |-> 0, schema_v2_messages |-> 0, schema_v1_messages |-> 0,
     schema_unknown_messages |-> 0]

\* what the transport does to one _connect: redis.from_url raises, ping raises,
\* or both go through
ConnectOutcomes == {"from_url_raises", "ping_raises", "ok"}

\* _connect(): the subscriber afterwards and the value returned
_connect(s, outcome) ==
    IF outcome = "from_url_raises" THEN [s |-> s, ret |-> FALSE]
    ELSE IF outcome = "ping_raises"
    THEN [s |-> [s EXCEPT !.client = "client"], ret |-> FALSE]
    ELSE [s |-> [s EXCEPT !.client = "client"], ret |-> TRUE]

\* a close() that leaves the handle as it is
Closed_Kept(pubsub) == pubsub

\* self.pubsub.close() of a handle, if there is one
Closed(pubsub) == IF pubsub = None THEN None ELSE "closed"

\* the close() calls of lines 111-120, in their order
CloseCalls(s) ==
    (IF s.pubsub # None THEN <<"pubsub">> ELSE <<>>)
        \o (IF s.client # None THEN <<"client">> ELSE <<>>)

\* _reconnect(): outcome is that of _connect, or "subscribe_raises"
ReconnectOutcomes == ConnectOutcomes \cup {"subscribe_raises"}

_reconnect(s, outcome) ==
    LET closed == [s EXCEPT !.pubsub = Closed(@)]
        c == _connect(closed, IF outcome = "subscribe_raises" THEN "ok" ELSE outcome)
    IN IF ~c.ret THEN [s |-> c.s, ret |-> FALSE, closes |-> CloseCalls(s)]
       ELSE IF outcome = "subscribe_raises"
       THEN [s |-> [c.s EXCEPT !.pubsub = "unsubscribed"], ret |-> FALSE,
             closes |-> CloseCalls(s)]
       ELSE [s |-> [c.s EXCEPT !.pubsub = "subscribed"], ret |-> TRUE,
             closes |-> CloseCalls(s)]

\* get_status()
get_status(s) ==
    [enabled |-> s.enabled, connected |-> s.client # None, subscribed |-> s.running]

-----------------------------------------------------------------------------
(* RedisSubscriber: what is observed of the handler and of the read loop *)

NoLast == [handled |-> FALSE, data |-> MalformedData, pre |-> NewSubscriber(NoCallback, FALSE),
           post |-> NewSubscriber(NoCallback, FALSE), calls |-> <<>>, exc |-> None,
           stopped |-> FALSE, then |-> None]

\* the call of _reconnect() a read loop made last: the handles before and
\* after it, what the transport did, the close() calls and the value returned
NoReconnect == [called |-> FALSE, pubsub_before |-> None, client_before |-> None,
                outcome |-> None, closes |-> <<>>, ret |-> FALSE,
                pubsub_after |-> None, client_after |-> None]

\* the read loop's handling of one exception of listen()
NoLoopEvent == [kind |-> None, pre_reconnect_count |-> 0, pre_errors |-> 0,
             post_reconnect_count |-> 0, post_errors |-> 0, reconnects |-> 0,
             raised_running |-> FALSE, stopped_in_sleep |-> FALSE, completed |-> FALSE]

\* last: the message handled last, until the loop takes its next step;
\* streak: the delays the loop slept since the message handled last, conn of
\* them for a ConnectionError, followed by reconnects calls of _reconnect;
\* event: the exception of listen() handled last, until the next message;
\* connect: the value _connect returned last;
\* start: the start_subscription call made last; stop_called: stop_subscription
\* was called since the thread started; exit_running: self.running when the
\* loop was left; others: exceptions other than ConnectionError so far;
\* starts: start_subscription calls so far; reset_from: the delay that the
\* message handled last reset
NoObs == [last |-> NoLast, streak |-> <<>>, conn |-> 0, reconnects |-> 0,
          event |-> NoLoopEvent, connect |-> None,
          start |-> [called |-> FALSE, ret |-> FALSE, connected |-> FALSE,
                     thread |-> FALSE],
          stop_called |-> FALSE, exit_running |-> FALSE, others |-> 0, starts |-> 0,
          reset_from |-> 0]

NoLoop == [pc |-> "none", retry_delay |-> 0, message |-> [type |-> None, data |-> MalformedData]]

-----------------------------------------------------------------------------
(* RedisSubscriber: start_subscription, stop_subscription, _listen_for_messages *)

\* max_retry_delay
max_retry_delay == 60

Min(a, b) == IF a < b THEN a ELSE b

\* retry_delay = min(retry_delay * 2, max_retry_delay)
NextDelay_Uncapped(retry_delay) == retry_delay * 2

\* the cap applied before the doubling
NextDelay_CapFirst(retry_delay) == Min(retry_delay, max_retry_delay) * 2

NextDelay(retry_delay) == Min(retry_delay * 2, max_retry_delay)

\* `while self.running` and `if not self.running: break`
WhileRunning_Subscribed(s) == s.running /\ s.pubsub = "subscribed"

WhileRunning(s) == s.running

\* the except clause an exception of listen() is handled by
Classify_AllConnection(exc) == "conn"

Classify(exc) == IF exc = "ConnectionError" THEN "conn" ELSE "other"

\* the loop is left: the thread ends
Exited(s) == [pc |-> "exited", retry_delay |-> 0, message |-> NoLoop.message]

Listening(l) == [l EXCEPT !.pc = "listen", !.message = NoLoop.message]

\* the constructor's `if REDIS_AVAILABLE and config.enabled: self._connect()`
Connect(outcome) ==
    /\ obs.connect = None
    /\ sub' = _connect(sub, outcome).s
    /\ obs' = [obs EXCEPT !.connect = Bool(_connect(sub, outcome).ret)]
    /\ UNCHANGED loop

\* start_subscription(): the subscriber afterwards, the value returned and
\* whether a thread was started; subscribes: the subscribe calls go through
start_subscription(s, subscribes) ==
    IF ~s.enabled \/ s.client = None
    THEN [s |-> s, ret |-> FALSE, thread |-> FALSE]
    ELSE IF ~subscribes
    THEN [s |-> [s EXCEPT !.pubsub = "unsubscribed"], ret |-> FALSE, thread |-> FALSE]
    ELSE [s |-> [s EXCEPT !.pubsub = "subscribed", !.running = TRUE],
          ret |-> TRUE, thread |-> TRUE]

\* a stop that sets the flag and leaves the subscription handle open
stop_subscription_FlagOnly(s) == [s EXCEPT !.running = FALSE]

\* stop_subscription() before the join
stop_subscription(s) == [s EXCEPT !.running = FALSE, !.pubsub = Closed(@)]

\* start_subscription() with the one read loop that `loop` follows
StartSubscription(subscribes) ==
    /\ obs.connect # None
    /\ loop.pc \in {"none", "exited"}
    /\ obs.starts < MaxStarts
    /\ LET started == start_subscription(sub, subscribes).thread
           result == [called |-> TRUE, ret |-> start_subscription(sub, subscribes).ret,
                      connected |-> obs.connect = "True", thread |-> started]
       IN /\ sub' = start_subscription(sub, subscribes).s
          /\ loop' = IF started THEN [NoLoop EXCEPT !.pc = "listen", !.retry_delay = 1]
                     ELSE loop
          /\ obs' = [obs EXCEPT !.start = result, !.starts = @ + 1,
                                !.streak = IF started THEN <<>> ELSE @,
                                !.conn = IF started THEN 0 ELSE @,
                                !.reconnects = IF started THEN 0 ELSE @,
                                !.stop_called = IF started THEN FALSE ELSE @]

\* stop_subscription()
StopSubscription ==
    /\ obs.connect # None
    /\ sub' = stop_subscription(sub)
    /\ obs' = [obs EXCEPT !.stop_called = TRUE]
    /\ UNCHANGED loop

\* listen() yields a message
Receive(type, data) ==
    /\ loop.pc = "listen"
    /\ sub.pubsub = "subscribed"
    /\ sub.messages_received < MaxMessages
    /\ loop' = [loop EXCEPT !.pc = "got", !.message = [type |-> type, data |-> data]]
    /\ obs' = [obs EXCEPT !.last = NoLast, !.event = NoLoopEvent]
    /\ UNCHANGED sub

\* lines 174-178 for the message listen() yielded, and lines 180-181 after a break
Dispatch ==
    /\ loop.pc = "got"
    /\ LET r == _handle_message(sub, loop.message.data)
           kind == Classify(r.exc)
       IN IF ~WhileRunning(sub)
          THEN /\ loop' = Exited(sub)
               /\ obs' = [obs EXCEPT !.exit_running = sub.running]
               /\ UNCHANGED sub
          ELSE IF loop.message.type # "message"
          THEN /\ loop' = Listening(loop)
               /\ UNCHANGED <<sub, obs>>
          ELSE IF r.exc = None
          THEN /\ sub' = r.s
               /\ loop' = [Listening(loop) EXCEPT !.retry_delay = 1]
               /\ obs' = [obs EXCEPT
                            !.last = [handled |-> TRUE, data |-> loop.message.data,
                                      pre |-> sub, post |-> r.s, calls |-> r.calls,
                                      exc |-> r.exc, stopped |-> ~sub.running,
                                      then |-> "listen"],
                            !.streak = <<>>, !.conn = 0, !.reconnects = 0,
                            !.reset_from = loop.retry_delay]
          ELSE \* an exception left _handle_message: an except clause of the loop
               /\ sub' = Bump(r.s, IF kind = "conn" THEN "reconnect_count" ELSE "errors")
               /\ loop' = [loop EXCEPT !.pc = IF kind = "conn" THEN "sleep_conn"
                                                               ELSE "sleep_err",
                                       !.message = NoLoop.message]
               /\ obs' = [obs EXCEPT
                            !.last = [handled |-> TRUE, data |-> loop.message.data,
                                      pre |-> sub, post |-> r.s, calls |-> r.calls,
                                      exc |-> r.exc, stopped |-> ~sub.running,
                                      then |-> loop'.pc]]

\* What wire remembers of the connection of the subscription:
\*   sent    the messages the broker delivered to it, oldest first
\*   taken   how many of them listen() has yielded
\*   log     the steps of the read loop on them: "take" when listen() yields
\*           message k; "skip" when the loop drops it unhandled; "done" when
\*           _handle_message has returned, with the callback invocations it
\*           made and the number of messages waiting by then; "raised" when
\*           it raised
NoWire == [sent |-> <<>>, taken |-> 0, log |-> <<>>]

\* a listen() that yields the newest message that waits
NextMessage_Newest(w) == w.sent[Len(w.sent)]

\* `for message in self.pubsub.listen()`: the connection hands over the
\* messages in the order they arrived
NextMessage(w) == w.sent[w.taken + 1]

\* the broker delivers a message to the connection, whatever the loop does
Deliver(m) ==
    /\ sub.pubsub = "subscribed"
    /\ Len(wire.sent) < MaxDeliveries
    /\ wire' = [wire EXCEPT !.sent = Append(@, m)]
    /\ UNCHANGED <<sub, loop, obs>>

\* line 173: listen() yields the next message
Take ==
    /\ loop.pc = "listen"
    /\ sub.pubsub = "subscribed"
    /\ wire.taken < Len(wire.sent)
    /\ loop' = [loop EXCEPT !.pc = "got",
                            !.message = [type |-> NextMessage(wire)[1],
                                         data |-> NextMessage(wire)[2]]]
    /\ obs' = [obs EXCEPT !.last = NoLast, !.event = NoLoopEvent]
    /\ wire' = [wire EXCEPT !.taken = @ + 1,
                            !.log = Append(@, [ev |-> "take", k |-> wire.taken + 1,
                                               message |-> NextMessage(wire),
                                               calls |-> <<>>, waiting |-> 0])]
    /\ UNCHANGED sub

\* lines 173-175 for the message listen() yielded: the flag is read, and a
\* message of type "message" is handed to _handle_message
Check ==
    /\ loop.pc = "got"
    /\ IF ~WhileRunning(sub)
       THEN /\ loop' = Exited(sub)
            /\ obs' = [obs EXCEPT !.exit_running = sub.running]
       ELSE IF loop.message.type # "message"
       THEN /\ loop' = Listening(loop)
            /\ UNCHANGED obs
       ELSE /\ loop' = [loop EXCEPT !.pc = "handling"]
            /\ UNCHANGED obs
    /\ UNCHANGED sub

\* lines 176-177: _handle_message runs to its end, whatever the flag is by then
Handle ==
    /\ loop.pc = "handling"
    /\ LET r == _handle_message(sub, loop.message.data)
           kind == Classify(r.exc)
           last == [handled |-> TRUE, data |-> loop.message.data,
                    pre |-> sub, post |-> r.s, calls |-> r.calls,
                    exc |-> r.exc, stopped |-> ~sub.running, then |-> "listen"]
       IN IF r.exc = None
          THEN /\ sub' = r.s
               /\ loop' = [Listening(loop) EXCEPT !.retry_delay = 1]
               /\ obs' = [obs EXCEPT !.last = last,
                                     !.streak = <<>>, !.conn = 0, !.reconnects = 0,
                                     !.reset_from = loop.retry_delay]
          ELSE /\ sub' = Bump(r.s, IF kind = "conn" THEN "reconnect_count" ELSE "errors")
               /\ loop' = [loop EXCEPT !.pc = IF kind = "conn" THEN "sleep_conn"
                                                               ELSE "sleep_err",
                                       !.message = NoLoop.message]
               /\ obs' = [obs EXCEPT !.last = [last EXCEPT !.then = loop'.pc]]

\* Check and Handle on the message taken from the connection
TakenCheck ==
    /\ Check
    /\ wire' = IF loop'.pc = "handling" THEN wire
               ELSE [wire EXCEPT !.log = Append(@, [ev |-> "skip", k |-> wire.taken,
                                                    message |-> wire.sent[wire.taken],
                                                    calls |-> <<>>, waiting |-> 0])]

TakenHandle ==
    /\ Handle
    /\ wire' = [wire EXCEPT
                  !.log = Append(@, [ev |-> IF loop'.pc = "listen" THEN "done" ELSE "raised",
                                     k |-> wire.taken,
                                     message |-> wire.sent[wire.taken],
                                     calls |-> obs'.last.calls,
                                     waiting |-> Len(wire.sent) - wire.taken])]

\* listen() raises exc: the except clauses up to time.sleep
ListenRaises(exc) ==
    /\ loop.pc = "listen"
    /\ sub.reconnect_count + obs.others < MaxFailures
    /\ exc # "ConnectionError" => obs.others < MaxOthers
    /\ LET kind == Classify(exc)
       IN /\ sub' = Bump(sub, IF kind = "conn" THEN "reconnect_count" ELSE "errors")
          /\ loop' = [loop EXCEPT !.pc = IF kind = "conn" THEN "sleep_conn"
                                                          ELSE "sleep_err"]
          /\ obs' = [obs EXCEPT
                       !.last = NoLast,
                       !.streak = Append(@, loop.retry_delay),
                       !.conn = IF kind = "conn" THEN @ + 1 ELSE @,
                       !.event = [kind |-> exc,
                                  pre_reconnect_count |-> sub.reconnect_count,
                                  pre_errors |-> sub.errors,
                                  post_reconnect_count |-> sub'.reconnect_count,
                                  post_errors |-> sub'.errors,
                                  reconnects |-> 0, raised_running |-> sub.running,
                                  stopped_in_sleep |-> FALSE, completed |-> FALSE],
                       !.others = IF exc = "ConnectionError" THEN @ ELSE @ + 1]

\* listen() returns: its handle is closed or not subscribed
ListenEnds ==
    /\ loop.pc = "listen"
    /\ sub.pubsub # "subscribed"
    /\ ~WhileRunning(sub)
    /\ loop' = Exited(sub)
    /\ obs' = [obs EXCEPT !.exit_running = sub.running]
    /\ UNCHANGED sub

\* the loop goes round after an except clause: `while self.running`
Round(s, l, o) ==
    IF WhileRunning(s)
    THEN /\ loop' = [l EXCEPT !.pc = "listen"]
         /\ obs' = o
    ELSE /\ loop' = Exited(s)
         /\ obs' = [o EXCEPT !.exit_running = s.running]

\* lines 188-190: the sleep is over, the delay doubles, _reconnect() is called
WakeConn(outcome) ==
    /\ loop.pc = "sleep_conn"
    /\ sub' = _reconnect(sub, outcome).s
    /\ Round(sub', [loop EXCEPT !.retry_delay = NextDelay(@)],
             [obs EXCEPT !.reconnects = @ + 1,
                         !.event = [@ EXCEPT !.reconnects = @ + 1,
                                             !.post_reconnect_count = sub.reconnect_count,
                                             !.post_errors = sub.errors,
                                             !.stopped_in_sleep = obs.event.raised_running /\ ~sub.running,
                                             !.completed = TRUE]])

\* lines 195-196: the sleep is over, the delay doubles
WakeErr ==
    /\ loop.pc = "sleep_err"
    /\ UNCHANGED sub
    /\ Round(sub, [loop EXCEPT !.retry_delay = NextDelay(@)],
             [obs EXCEPT !.event = [@ EXCEPT !.post_reconnect_count = sub.reconnect_count,
                                             !.post_errors = sub.errors,
                                             !.stopped_in_sleep = obs.event.raised_running /\ ~sub.running,
                                             !.completed = TRUE]])

\* a direct call _handle_message(message) on a subscriber
HandleMessage(data) ==
    /\ sub.messages_received < MaxHandled
    /\ LET r == _handle_message(sub, data)
       IN /\ sub' = r.s
          /\ obs' = [obs EXCEPT
                       !.last = [handled |-> TRUE, data |-> data, pre |-> sub,
                                 post |-> r.s, calls |-> r.calls, exc |-> r.exc,
                                 stopped |-> FALSE, then |-> None]]
    /\ UNCHANGED loop

-----------------------------------------------------------------------------
(* CalendarServiceRedisService (src/redis_integration/service_wrapper.py) *)

\* what is remembered of the call of the wrapper made last: the operation,
\* the value it returned, the value the call it wraps returned (inner) and
\* what that call did (outcome)
NoCall == [op |-> None, ret |-> FALSE, inner |-> None, outcome |-> None, arg |-> <<>>]

\* subscriber: self.subscriber is set; threads: the state of every read-loop
\* thread started so far ("listen", "sleep", "exited"), the last one being
\* self.subscription_thread; reconnect: the _reconnect() call a thread made last;
\* broker: the broker accepts connections; outages: the times it went down;
\* round: the parity of the rounds of `while self.running` in which listen()
\* returned at once
NoSvc == [enabled |-> FALSE, calendar_sync_callback |-> NoCallback,
          subscriber |-> FALSE, threads |-> <<>>, last |-> NoCall,
          reconnect |-> NoReconnect, broker |-> TRUE, outages |-> 0, round |-> 0]

\* CalendarServiceRedisService(enabled, calendar_sync_callback)
NewService(enabled, callback) ==
    [NoSvc EXCEPT !.enabled = enabled, !.calendar_sync_callback = callback,
                  !.subscriber = enabled /\ callback.configured]

Alive(threads) == {i \in 1..Len(threads) : threads[i] # "exited"}

\* the constructor of the subscriber the wrapper creates: _connect()
ServiceConnect(outcome) ==
    /\ svc.subscriber
    /\ Connect(outcome)
    /\ UNCHANGED svc

\* self.subscriber.start_subscription() and the thread it starts
SubscriberStart(s, threads, subscribes) ==
    [s |-> start_subscription(s, subscribes).s,
     ret |-> start_subscription(s, subscribes).ret,
     threads |-> IF start_subscription(s, subscribes).thread
                 THEN Append(threads, "listen") ELSE threads]

\* self.subscriber.stop_subscription(); joined: the thread of
\* self.subscription_thread, blocked in listen(), leaves the loop within the
\* second that join(timeout=1) waits
SubscriberStop(s, threads, joined) ==
    [s |-> stop_subscription(s),
     threads |-> IF joined /\ threads # <<>> /\ threads[Len(threads)] = "listen"
                 THEN [threads EXCEPT ![Len(threads)] = "exited"]
                 ELSE threads]

\* start_redis_subscription(): the value it returns given that start_subscription
\* returned inner (it raises nothing)
StartResult(inner) == TRUE

start_redis_subscription(v, s, subscribes) ==
    IF ~v.enabled \/ ~v.subscriber
    THEN [s |-> s, threads |-> v.threads, ret |-> FALSE, inner |-> None]
    ELSE [s |-> SubscriberStart(s, v.threads, subscribes).s,
          threads |-> SubscriberStart(s, v.threads, subscribes).threads,
          ret |-> StartResult(SubscriberStart(s, v.threads, subscribes).ret),
          inner |-> Bool(SubscriberStart(s, v.threads, subscribes).ret)]

StartRedisSubscription(subscribes) ==
    /\ obs.connect # None \/ ~svc.subscriber
    /\ Len(svc.threads) < MaxThreads
    /\ LET r == start_redis_subscription(svc, sub, subscribes)
       IN /\ sub' = r.s
          /\ svc' = [svc EXCEPT !.threads = r.threads,
                                !.last = [NoCall EXCEPT !.op = "start", !.ret = r.ret,
                                                        !.inner = r.inner]]
    /\ UNCHANGED <<loop, obs>>

\* stop_redis_subscription()
StopRedisSubscription(joined) ==
    /\ obs.connect # None \/ ~svc.subscriber
    /\ IF ~svc.subscriber
       THEN /\ svc' = [svc EXCEPT !.last = [NoCall EXCEPT !.op = "stop", !.ret = TRUE]]
            /\ UNCHANGED sub
       ELSE /\ sub' = SubscriberStop(sub, svc.threads, joined).s
            /\ svc' = [svc EXCEPT
                          !.threads = SubscriberStop(sub, svc.threads, joined).threads,
                          !.last = [NoCall EXCEPT !.op = "stop", !.ret = TRUE]]
    /\ UNCHANGED <<loop, obs>>

\* restart_subscription(): stop_redis_subscription(), then start_redis_subscription()
RestartSubscription(joined, subscribes) ==
    /\ obs.connect # None \/ ~svc.subscriber
    /\ Len(svc.threads) < MaxThreads
    /\ IF ~svc.enabled \/ ~svc.subscriber
       THEN /\ svc' = [svc EXCEPT !.last = [NoCall EXCEPT !.op = "restart"]]
            /\ UNCHANGED sub
       ELSE LET stopped == SubscriberStop(sub, svc.threads, joined)
                r == start_redis_subscription([svc EXCEPT !.threads = stopped.threads],
                                              stopped.s, subscribes)
            IN /\ sub' = r.s
               /\ svc' = [svc EXCEPT !.threads = r.threads,
                                     !.last = [NoCall EXCEPT !.op = "restart",
                                                             !.ret = r.ret,
                                                             !.inner = r.inner]]
    /\ UNCHANGED <<loop, obs>>

\* thread i finds self.running false where the loop reads it (lines 168, 174,
\* 180) and returns
ThreadExit(i) ==
    /\ i \in 1..Len(svc.threads)
    /\ svc.threads[i] = "listen"
    /\ ~WhileRunning(sub)
    /\ svc' = [svc EXCEPT !.threads[i] = "exited"]
    /\ UNCHANGED <<sub, loop, obs>>

\* listen() raises ConnectionError in thread i: lines 183-188, up to the sleep
ThreadListenRaises(i) ==
    /\ i \in 1..Len(svc.threads)
    /\ svc.threads[i] = "listen"
    /\ sub.reconnect_count < MaxDrops
    /\ sub' = Bump(sub, "reconnect_count")
    /\ svc' = [svc EXCEPT !.threads[i] = "sleep"]
    /\ UNCHANGED <<loop, obs>>

\* the sleep of thread i is over: _reconnect(), then `while self.running`
ThreadWake(i, outcome) ==
    /\ i \in 1..Len(svc.threads)
    /\ svc.threads[i] = "sleep"
    /\ sub' = _reconnect(sub, outcome).s
    /\ svc' = [svc EXCEPT !.threads[i] = IF WhileRunning(sub') THEN "listen"
                                                              ELSE "exited",
                          !.reconnect = [called |-> TRUE,
                                         pubsub_before |-> sub.pubsub,
                                         client_before |-> sub.client,
                                         outcome |-> outcome,
                                         closes |-> _reconnect(sub, outcome).closes,
                                         ret |-> _reconnect(sub, outcome).ret,
                                         pubsub_after |-> sub'.pubsub,
                                         client_after |-> sub'.client]]
    /\ UNCHANGED <<loop, obs>>

\* the broker stops accepting connections and drops the ones it holds
BrokerDown ==
    /\ svc.broker
    /\ svc.outages < MaxOutages
    /\ svc' = [svc EXCEPT !.broker = FALSE, !.outages = @ + 1]
    /\ UNCHANGED <<sub, loop, obs>>

\* the broker accepts connections again
BrokerUp ==
    /\ ~svc.broker
    /\ svc' = [svc EXCEPT !.broker = TRUE]
    /\ UNCHANGED <<sub, loop, obs>>

\* what _connect meets at the broker
BrokerOutcomes(up) == IF up THEN {"ok"} ELSE {"from_url_raises", "ping_raises"}

\* listen() on a handle that is closed: `while self.subscribed` of the client
\* library is false, the generator ends without a message and without an
\* exception; lines 180-181 and 168 find self.running true
ListenReturns ==
    /\ loop.pc = "listen"
    /\ sub.pubsub = "closed"
    /\ WhileRunning(sub)
    /\ svc' = [svc EXCEPT !.round = 1 - @]
    /\ UNCHANGED <<sub, loop, obs>>

\* handle_manual_sync_request(matches): the value it returns given what the
\* call of the callback did
ManualResult(outcome) == ~Raises(outcome)

handle_manual_sync_request(v, matches) ==
    IF ~v.calendar_sync_callback.configured
    THEN [calls |-> <<>>, outcome |-> None, ret |-> FALSE]
    ELSE [calls |-> <<FlatList(matches)>>,
          outcome |-> Invoke(v.calendar_sync_callback, FlatList(matches)),
          ret |-> ManualResult(Invoke(v.calendar_sync_callback, FlatList(matches)))]

HandleManualSyncRequest(matches) ==
    /\ svc.last.op # "manual"
    /\ LET r == handle_manual_sync_request(svc, matches)
       IN svc' = [svc EXCEPT !.last = [NoCall EXCEPT !.op = "manual", !.ret = r.ret,
                                                    !.outcome = r.outcome,
                                                    !.arg = r.calls]]
    /\ UNCHANGED <<sub, loop, obs>>

-----------------------------------------------------------------------------
(* Two fetches of one fixture and their content hashes *)

\* no fixture fetched
NoCalc == [step |-> None, kind |-> None, r1 |-> NoMatch, r2 |-> NoMatch,
           h1 |-> NoHash, h2 |-> NoHash]

\* the officials of the feed: one, and one that differs from it in each
\* attribute that generate_match_hash sorts by
Officials ==
    {Referee(1, 1, 1, 1, 1, 1), Referee(2, 1, 1, 1, 1, 1), Referee(1, 2, 1, 1, 1, 1),
     Referee(1, 1, 2, 1, 1, 1), Referee(1, 1, 1, 2, 1, 1)}

OfficialLists == UNION {[1..n -> Officials] : n \in 0..MaxOfficials}

ContactLists == {<<>>, <<Contact("Home", "Kim", "0701")>>}

\* the fixtures whose hash is computed
HashFixtures ==
    {WithDetails(M1A, [Details EXCEPT !.domaruppdraglista = o, !.kontaktpersoner = k]) :
        o \in OfficialLists, k \in ContactLists}

Orders(n) ==
    {p \in [1..n -> 1..n] : \A i, j \in 1..n : i # j => p[i] # p[j]}

Reordered(list, p) == [i \in 1..Len(list) |-> list[p[i]]]

\* another value of an attribute of an official
Other(v) == 3 - v

OfficialAttributes ==
    {"personnamn", "epostadress", "telefonnummer", "adress", "mobiltelefon",
     "domarrollkortnamn"}

ContactAttributes == {"lagnamn", "personnamn", "telefon"}

\* the fixture r fetched again with one attribute of its i-th official changed
OfficialChanged(r, i, a) ==
    LET o == r.domaruppdraglista[i]
        n == CASE a = "personnamn" -> [o EXCEPT !.personnamn = Other(@)]
               [] a = "epostadress" -> [o EXCEPT !.epostadress = Other(@)]
               [] a = "telefonnummer" -> [o EXCEPT !.telefonnummer = Other(@)]
               [] a = "adress" -> [o EXCEPT !.adress = Other(@)]
               [] a = "mobiltelefon" -> [o EXCEPT !.mobiltelefon = Other(@)]
               [] OTHER -> [o EXCEPT !.domarrollkortnamn = Other(@)]
    IN [r EXCEPT !.domaruppdraglista[i] = n]

\* the fixture r fetched again with one attribute of its i-th contact changed
ContactChanged(r, i, a) ==
    LET c == r.kontaktpersoner[i]
        n == CASE a = "lagnamn" -> [c EXCEPT !.lagnamn = "Away"]
               [] a = "personnamn" -> [c EXCEPT !.personnamn = "Robin"]
               [] OTHER -> [c EXCEPT !.telefon = "0702"]
    IN [r EXCEPT !.kontaktpersoner[i] = n]

\* the fixture r fetched again with one of its own attributes changed
FieldChanged(r, a) ==
    CASE a = "lag1namn" -> [r EXCEPT !.lag1namn = "Guests"]
      [] a = "lag2namn" -> [r EXCEPT !.lag2namn = "Guests"]
      [] a = "anlaggningnamn" -> [r EXCEPT !.anlaggningnamn = "Arena B"]
      [] a = "tid" -> [r EXCEPT !.tid.day = @ + 1]
      [] OTHER -> [r EXCEPT !.tavlingnamn = "Cup"]

FixtureAttributes == {"lag1namn", "lag2namn", "anlaggningnamn", "tid", "tavlingnamn"}

\* the second fetch returns the officials of the first in another order
Reorder(p) ==
    /\ calc.step = "fetched"
    /\ calc' = [calc EXCEPT !.step = "refetched", !.kind = "reorder",
                            !.r2.domaruppdraglista = Reordered(@, p)]

\* the second fetch returns the fixture with one attribute changed
Observe(r) ==
    /\ calc.step = "fetched"
    /\ calc' = [calc EXCEPT !.step = "refetched", !.kind = "observe", !.r2 = r]

\* generate_match_hash of both fetches
GenerateHashes ==
    /\ calc.step = "refetched"
    /\ calc' = [calc EXCEPT !.step = "hashed", !.h1 = generate_match_hash(calc.r1),
                            !.h2 = generate_match_hash(calc.r2)]

-----------------------------------------------------------------------------
(* Runs of main() and of calendar_sync_callback, one after the other, on a   *)
(* calendar that answers every call                                          *)

\* What run remembers of the run that started last:
\*   started, ended       it was invoked, it returned or raised
\*   caller               "main" or "callback"
\*   delete               args.delete
\*   data                 the argument of calendar_sync_callback
\*   F                    the fetched match list, or the matches of data
\*   before               the calendar when it was invoked
\*   deleted              the events delete_calendar_events deleted
\*   calls                the write calls of its sync_calendar invocations
\*   writes               the same, one entry per sync_calendar, in order
\*   ret                  the value calendar_sync_callback returned
\*   prev                 the same of the run before it
NoPrev == [started |-> FALSE, ended |-> FALSE, caller |-> None, data |-> OtherData,
           F |-> <<>>, before |-> {}, writes |-> <<>>, ret |-> None]

NoRun == [started |-> FALSE, ended |-> FALSE, caller |-> None, delete |-> FALSE,
          data |-> OtherData, F |-> <<>>, before |-> {}, deleted |-> {}, calls |-> {},
          writes |-> <<>>, ret |-> None, prev |-> NoPrev]

PrevOf(r) == [started |-> r.started, ended |-> r.ended, caller |-> r.caller,
              data |-> r.data, F |-> r.F, before |-> r.before, writes |-> r.writes,
              ret |-> r.ret]

\* the fetched match lists of the runs
RunLists ==
    {<<>>, <<M1A>>, <<M1B>>, <<M2, M1A>>, <<M1A, M2Bad>>, <<M2Bad, M1A>>, <<M1A, M1B>>,
     <<M1Old, M1A>>}

\* the envelopes and lists of the runs of the callback
RunData ==
    {ListData(<<M1A, M1B>>), EnvelopeData(<<M1A, M1B>>, <<>>, FALSE),
     EnvelopeData(<<M1A, M1B>>, <<Change("venue_change", "medium")>>, TRUE),
     EnvelopeData(<<>>, <<>>, FALSE),
     EnvelopeData(<<>>, <<Change("venue_change", "medium")>>, TRUE)}

\* the value the caller returned, once it returned
RunReturned(ended, caller, h) ==
    IF ended /\ caller = "callback" /\ h # <<>> /\ h[1].op = "calendar_sync_callback"
    THEN h[1].ret ELSE None

\* main() with or without --delete, up to its loop
RunMain(F, delete) ==
    /\ Main("t1", F, delete, FALSE, {})
    /\ run' = [NoRun EXCEPT !.started = TRUE, !.ended = pc'["t1"] = "idle",
                            !.caller = "main",
                            !.delete = delete, !.F = F, !.before = events,
                            !.deleted = IF hist'[1].op = "delete_orphaned_events"
                                        THEN hist'[1].after \ events' ELSE {},
                            !.prev = PrevOf(run)]

\* calendar_sync_callback(data) with the calendar service set, up to its loop
RunCallback(data) ==
    /\ CalendarSyncCallback("t1", data, TRUE, {})
    /\ run' = [NoRun EXCEPT !.started = TRUE, !.ended = pc'["t1"] = "idle",
                            !.caller = "callback", !.data = data,
                            !.F = MatchesOf(data), !.before = events,
                            !.ret = RunReturned(pc'["t1"] = "idle", "callback", hist'),
                            !.prev = PrevOf(run)]

\* one iteration of the loop of the caller, up to the lookup of sync_calendar
RunLoopStep ==
    /\ LoopStep("t1", FALSE)
    /\ run' = [run EXCEPT !.ended = pc'["t1"] = "idle",
                          !.ret = RunReturned(pc'["t1"] = "idle", run.caller, hist')]

\* the write step of the sync_calendar that the loop of the caller invoked
RunSyncCalendarWrite ==
    /\ SyncCalendarWrite("t1", FALSE)
    /\ LET calls == UNION {e.calls : e \in {x \in {hist'[i] : i \in 1..Len(hist')} :
                                              x.op = "sync_calendar"}}
       IN run' = [run EXCEPT !.ended = pc'["t1"] = "idle",
                             !.calls = @ \cup calls,
                             !.writes = Append(@, calls),
                             !.ret = RunReturned(pc'["t1"] = "idle", run.caller, hist')]

-----------------------------------------------------------------------------
(* create_google_contact (src/fogis_contacts.py) *)

MAX_RETRIES_GOOGLE_API == 5
BACKOFF_FACTOR_GOOGLE_API == 2
BASE_DELAY_GOOGLE_API == 60
DELAY_BETWEEN_CONTACT_CALLS == 1

\* What api remembers of the operation observed:
\*   op          the operation
\*   group_id    create_google_contact was given a group
\*   attempt     the loop variable of its retry loop
\*   calls       the remote calls made, each with the HTTP status of the answer
\*               (0: an exception that is no HttpError)
\*   sleeps      the arguments of its time.sleep calls
\*   ret         the value returned
\*   done        it returned
NoApi == [op |-> None, group_id |-> FALSE, attempt |-> 0, calls |-> <<>>,
          sleeps |-> <<>>, ret |-> None, done |-> FALSE]

ApiCall(call, status) == [call |-> call, status |-> status]

\* the answers to people().createContact and to contactGroups().members().modify
CreateResponses == {200, 409, 429, 500, 0}
ModifyResponses == {200, 400, 409, 429, 500, 0}

\* a delay that does not grow with the attempt
Delay_Constant(attempt) == BASE_DELAY_GOOGLE_API

\* delay = BASE_DELAY_GOOGLE_API * (BACKOFF_FACTOR_GOOGLE_API**attempt)
Delay(attempt) == BASE_DELAY_GOOGLE_API * BACKOFF_FACTOR_GOOGLE_API ^ attempt

\* the HttpError status or exception that reaches the handlers of the outer try
\* (200: none).  The inner handlers keep status 400 and every exception that
\* is no HttpError of the group call and re-raise its other HttpErrors
OuterError(group_id, create, modify) ==
    IF create # 200 THEN create
    ELSE IF group_id /\ modify \in {409, 429, 500} THEN modify
    ELSE 200

\* the calls of one iteration
AttemptCalls(group_id, create, modify) ==
    IF create = 200 /\ group_id
    THEN <<ApiCall("createContact", create), ApiCall("modify", modify)>>
    ELSE <<ApiCall("createContact", create)>>

\* one iteration of `for attempt in range(MAX_RETRIES_GOOGLE_API)` (lines
\* 501-576); found: find_contact_by_phone returns a contact
CreateAttempt(create, modify, found) ==
    /\ api.op = "create_google_contact"
    /\ ~api.done
    /\ api.attempt < MAX_RETRIES_GOOGLE_API
    /\ LET err == OuterError(api.group_id, create, modify)
           called == [api EXCEPT !.calls = @ \o AttemptCalls(api.group_id, create, modify)]
       IN api' =
            IF err = 200
            THEN [called EXCEPT !.ret = "contact_id", !.done = TRUE]
            ELSE IF err = 429
            THEN IF api.attempt < MAX_RETRIES_GOOGLE_API - 1
                 THEN [called EXCEPT
                          !.sleeps = @ \o <<Delay(api.attempt), DELAY_BETWEEN_CONTACT_CALLS>>,
                          !.attempt = @ + 1,
                          !.done = api.attempt + 1 = MAX_RETRIES_GOOGLE_API]
                 ELSE [called EXCEPT !.ret = None, !.done = TRUE]
            ELSE IF err = 409
            THEN [called EXCEPT !.ret = IF found THEN "existing_contact" ELSE None,
                                !.done = TRUE]
            ELSE [called EXCEPT !.ret = None, !.done = TRUE]

-----------------------------------------------------------------------------
(* The remote calls of one sync_calendar and the answers they get *)

\* the statuses of an HttpError: a rate-limit response and another error
ErrorStatuses == {429, 500}

\* the fixtures sync_calendar is observed with
CallFixtures == {M1A, M1B}

\* sync_calendar(r) up to its lookup; the list call raises HttpError with
\* `status` when fail.  find_event_by_match_id calls execute() once (217-229)
SyncCall(r, fail, status) ==
    /\ CallSyncCalendar("t1", r, fail)
    /\ api' = [NoApi EXCEPT
                 !.op = "sync_calendar",
                 !.calls = IF pc'["t1"] = "write"
                           THEN <<ApiCall("list", IF fail THEN status ELSE 200)>>
                           ELSE <<>>,
                 !.done = pc'["t1"] = "idle"]

\* the write step of sync_calendar; the update or insert call raises
\* HttpError with `status` when fail.  Each is executed once (429-436, 449-453)
SyncWrite(fail, status) ==
    /\ SyncCalendarWrite("t1", fail)
    /\ LET made == hist'[1].calls
       IN api' = [api EXCEPT
                    !.calls = IF made = {} THEN @
                              ELSE LET c == CHOOSE x \in made : TRUE
                                   IN Append(@, ApiCall(c.call,
                                                IF c.ok THEN 200
                                                ELSE IF fail THEN status ELSE 404)),
                    !.ret = hist'[1].ret,
                    !.done = TRUE]

-----------------------------------------------------------------------------
(* The specifications *)

EngineInit ==
    /\ events = {ForeignEvent}
    /\ next_event_id = 1
    /\ pc = [t \in Threads |-> "idle"]
    /\ ctx = [t \in Threads |-> None]
    /\ queue = [t \in Threads |-> <<>>]
    /\ cur = [t \in Threads |-> NoCur]
    /\ old_matches = [t \in Threads |-> {}]
    /\ batch = [t \in Threads |-> NoBatch]
    /\ overlap = [t \in Threads |-> NoOverlap]
    /\ hist = <<>>

\* a subscriber constructed with one of the callbacks cbs, before _connect
SubscriberInit(cbs, logos) ==
    /\ sub \in {NewSubscriber(cb, logo) : cb \in cbs, logo \in logos}
    /\ loop = NoLoop
    /\ obs = NoObs

\* no service wrapper, no hash computed, no run of main, no call observed
NoService ==
    /\ svc = NoSvc
    /\ calc = NoCalc
    /\ run = NoRun
    /\ api = NoApi
    /\ wire = NoWire

\* the reconciliation engine alone
Init ==
    /\ EngineInit
    /\ SubscriberInit({NoCallback}, {FALSE})
    /\ NoService

\* the ways the remote calls of one sweep can fail: the list call, or the
\* delete calls of some of the orphans
SweepFailures(F, days) ==
    {[list |-> TRUE, del |-> {}]} \cup
    {[list |-> FALSE, del |-> d] : d \in SUBSET EventIds(Orphans(events, F, days, FALSE))}

Next ==
    \/ \E t \in Threads :
        \/ \E r \in Fixtures(t), fail \in BOOLEAN :
              CallSyncCalendar(t, r, fail) /\ UNCHANGED <<subVars, svcVars>>
        \/ \E fail \in BOOLEAN : SyncCalendarWrite(t, fail) /\ UNCHANGED <<subVars, svcVars>>
    \/ \E t \in {"t1"} :
        \/ \E F \in SweepLists, days \in RetentionDays :
              \E f \in SweepFailures(F, days) :
                DeleteOrphanedEvents(t, F, days, f.list, f.del) /\ UNCHANGED <<subVars, svcVars>>
        \/ \E F \in MainLists :
              \E f \in SweepFailures(F, DAYS_TO_KEEP_PAST_EVENTS) :
                Main(t, F, FALSE, f.list, f.del) /\ UNCHANGED <<subVars, svcVars>>
        \/ \E fail \in BOOLEAN : LoopStep(t, fail) /\ UNCHANGED <<subVars, svcVars>>
        \/ \E data \in CallbackData, calendar_service \in BOOLEAN :
              \E throws \in CallbackThrows :
                CalendarSyncCallback(t, data, calendar_service, throws)
                    /\ UNCHANGED <<subVars, svcVars>>

Spec == Init /\ [][Next]_vars

\* the payloads and the message data _handle_message is called with; the
\* detailed changes vary in the messages of the schema that reads them
Payloads ==
    {NoPayload, Payload(WireMatches, <<>>, Absent), Payload(WireMatches, <<>>, "false"),
     Payload(WireMatches, <<>>, "true")}

EnhancedPayloads ==
    {Payload(WireMatches, c, "true") : c \in ChangeLists(MaxChanges)}

MessageData ==
    {MalformedData, ArrayData, ObjectData("processing_status", "2.0", NoPayload)}
        \cup {ObjectData("match_updates", v, p) : v \in SchemaVersions, p \in Payloads}
        \cup {ObjectData("match_updates", "2.0", p) : p \in EnhancedPayloads}

\* _handle_message called on a subscriber, message by message
MsgInit ==
    /\ EngineInit
    /\ SubscriberInit(Callbacks, BOOLEAN)
    /\ NoService

MsgNext == \E data \in MessageData : HandleMessage(data) /\ UNCHANGED <<engineVars, svcVars>>

MsgSpec == MsgInit /\ [][MsgNext]_vars

\* what listen() yields in the read loop
LoopMessages ==
    {<<"subscribe", MalformedData>>, <<"message", MalformedData>>,
     <<"message", ArrayData>>,
     <<"message", ObjectData("match_updates", "2.0",
                             Payload(WireMatches, <<>>, "true"))>>}

\* a subscriber with its read loop, its owner and the broker
LoopInit ==
    /\ EngineInit
    /\ SubscriberInit({Callback("True", "True"), Callback("Exception", "True")}, {FALSE})
    /\ NoService

LoopNext ==
    \/ \E outcome \in ConnectOutcomes : Connect(outcome) /\ UNCHANGED <<engineVars, svcVars>>
    \/ \E subscribes \in BOOLEAN : StartSubscription(subscribes) /\ UNCHANGED <<engineVars, svcVars>>
    \/ StopSubscription /\ UNCHANGED <<engineVars, svcVars>>
    \/ \E m \in LoopMessages : Receive(m[1], m[2]) /\ UNCHANGED <<engineVars, svcVars>>
    \/ Dispatch /\ UNCHANGED <<engineVars, svcVars>>
    \/ \E exc \in {"ConnectionError", "Exception"} :
          ListenRaises(exc) /\ UNCHANGED <<engineVars, svcVars>>
    \/ ListenEnds /\ UNCHANGED <<engineVars, svcVars>>
    \/ \E outcome \in ReconnectOutcomes : WakeConn(outcome) /\ UNCHANGED <<engineVars, svcVars>>
    \/ WakeErr /\ UNCHANGED <<engineVars, svcVars>>

LoopSpec == LoopInit /\ [][LoopNext]_vars

\* a service wrapper with its subscriber, the threads of the subscriber, the
\* owner of the service and the broker
ServiceInit ==
    /\ EngineInit
    /\ \E enabled \in BOOLEAN, cb \in Callbacks :
          /\ svc = NewService(enabled, cb)
          /\ sub = NewSubscriber(cb, FALSE)
    /\ loop = NoLoop
    /\ obs = NoObs
    /\ calc = NoCalc
    /\ run = NoRun
    /\ api = NoApi
    /\ wire = NoWire

ServiceNext ==
    \/ \E outcome \in ConnectOutcomes :
          ServiceConnect(outcome) /\ UNCHANGED <<engineVars, calc, run, api, wire>>
    \/ \E subscribes \in BOOLEAN :
          StartRedisSubscription(subscribes) /\ UNCHANGED <<engineVars, calc, run, api, wire>>
    \/ \E joined \in BOOLEAN :
          StopRedisSubscription(joined) /\ UNCHANGED <<engineVars, calc, run, api, wire>>
    \/ \E joined \in BOOLEAN, subscribes \in BOOLEAN :
          RestartSubscription(joined, subscribes) /\ UNCHANGED <<engineVars, calc, run, api, wire>>
    \/ \E i \in 1..MaxThreads : ThreadExit(i) /\ UNCHANGED <<engineVars, calc, run, api, wire>>
    \/ \E i \in 1..MaxThreads : ThreadListenRaises(i) /\ UNCHANGED <<engineVars, calc, run, api, wire>>
    \/ \E i \in 1..MaxThreads, outcome \in ReconnectOutcomes :
          ThreadWake(i, outcome) /\ UNCHANGED <<engineVars, calc, run, api, wire>>
    \/ \E matches \in {<<>>, WireMatches} :
          HandleManualSyncRequest(matches) /\ UNCHANGED <<engineVars, calc, run, api, wire>>

ServiceSpec == ServiceInit /\ [][ServiceNext]_vars

\* a subscriber with its read loop and a broker that goes down and comes back
RecoverInit ==
    /\ EngineInit
    /\ SubscriberInit({Callback("True", "True"), Callback("Exception", "True")}, {FALSE})
    /\ svc = NoSvc
    /\ calc = NoCalc
    /\ run = NoRun
    /\ api = NoApi
    /\ wire = NoWire

\* the steps of the thread that runs _listen_for_messages
RecoverLoop ==
    \/ \E m \in LoopMessages :
          svc.broker /\ Receive(m[1], m[2]) /\ UNCHANGED <<engineVars, svcVars>>
    \/ Dispatch /\ UNCHANGED <<engineVars, svcVars>>
    \/ ~svc.broker /\ sub.pubsub = "subscribed" /\ ListenRaises("ConnectionError")
          /\ UNCHANGED <<engineVars, svcVars>>
    \/ ListenEnds /\ UNCHANGED <<engineVars, svcVars>>
    \/ ListenReturns /\ UNCHANGED <<engineVars, calc, run, api, wire>>
    \/ \E outcome \in BrokerOutcomes(svc.broker) :
          WakeConn(outcome) /\ UNCHANGED <<engineVars, svcVars>>

RecoverNext ==
    \/ \E outcome \in BrokerOutcomes(svc.broker) :
          Connect(outcome) /\ UNCHANGED <<engineVars, svcVars>>
    \/ svc.broker /\ StartSubscription(TRUE) /\ UNCHANGED <<engineVars, svcVars>>
    \/ StopSubscription /\ UNCHANGED <<engineVars, svcVars>>
    \/ BrokerDown /\ UNCHANGED <<engineVars, calc, run, api, wire>>
    \/ BrokerUp /\ UNCHANGED <<engineVars, calc, run, api, wire>>
    \/ RecoverLoop

\* the thread of the read loop is scheduled, and the broker comes back
RecoverSpec ==
    /\ RecoverInit
    /\ [][RecoverNext]_vars
    /\ WF_vars(RecoverLoop)
    /\ WF_vars(BrokerUp /\ UNCHANGED <<engineVars, calc, run, api, wire>>)

\* a fixture fetched twice and hashed twice
HashInit ==
    /\ EngineInit
    /\ SubscriberInit({NoCallback}, {FALSE})
    /\ svc = NoSvc
    /\ run = NoRun
    /\ api = NoApi
    /\ wire = NoWire
    /\ calc \in {[NoCalc EXCEPT !.step = "fetched", !.r1 = r, !.r2 = r] : r \in HashFixtures}

HashNext ==
    \/ \E p \in Orders(Len(calc.r1.domaruppdraglista)) :
          Reorder(p) /\ UNCHANGED <<engineVars, subVars, svc, run, api, wire>>
    \/ \E a \in FixtureAttributes :
          Observe(FieldChanged(calc.r1, a)) /\ UNCHANGED <<engineVars, subVars, svc, run, api, wire>>
    \/ \E i \in 1..Len(calc.r1.kontaktpersoner), a \in ContactAttributes :
          Observe(ContactChanged(calc.r1, i, a)) /\ UNCHANGED <<engineVars, subVars, svc, run, api, wire>>
    \/ \E i \in 1..Len(calc.r1.domaruppdraglista), a \in OfficialAttributes :
          Observe(OfficialChanged(calc.r1, i, a)) /\ UNCHANGED <<engineVars, subVars, svc, run, api, wire>>
    \/ GenerateHashes /\ UNCHANGED <<engineVars, subVars, svc, run, api, wire>>

HashSpec == HashInit /\ [][HashNext]_vars

\* main() and the callback are run again and again, each run to its end
RunInit ==
    /\ EngineInit
    /\ SubscriberInit({NoCallback}, {FALSE})
    /\ svc = NoSvc
    /\ calc = NoCalc
    /\ run = NoRun
    /\ api = NoApi
    /\ wire = NoWire

RunNext ==
    \/ \E F \in RunLists, delete \in BOOLEAN :
          RunMain(F, delete) /\ UNCHANGED <<subVars, svc, calc, api, wire>>
    \/ \E data \in RunData : RunCallback(data) /\ UNCHANGED <<subVars, svc, calc, api, wire>>
    \/ RunLoopStep /\ UNCHANGED <<subVars, svc, calc, api, wire>>
    \/ RunSyncCalendarWrite /\ UNCHANGED <<subVars, svc, calc, api, wire>>

RunSpec == RunInit /\ [][RunNext]_vars

\* create_google_contact(service, referee, group_id), called once
ContactInit ==
    /\ EngineInit
    /\ SubscriberInit({NoCallback}, {FALSE})
    /\ svc = NoSvc
    /\ calc = NoCalc
    /\ run = NoRun
    /\ api \in {[NoApi EXCEPT !.op = "create_google_contact", !.group_id = g] :
                   g \in BOOLEAN}
    /\ wire = NoWire

ContactNext ==
    \E create \in CreateResponses, modify \in ModifyResponses, found \in BOOLEAN :
        CreateAttempt(create, modify, found) /\ UNCHANGED <<engineVars, subVars, svc, calc, run, wire>>

ContactSpec == ContactInit /\ [][ContactNext]_vars

\* direct invocations of sync_calendar, one after the other
CallInit ==
    /\ EngineInit
    /\ SubscriberInit({NoCallback}, {FALSE})
    /\ svc = NoSvc
    /\ calc = NoCalc
    /\ run = NoRun
    /\ api = NoApi
    /\ wire = NoWire

CallNext ==
    \/ \E r \in CallFixtures, fail \in BOOLEAN, status \in ErrorStatuses :
          SyncCall(r, fail, status) /\ UNCHANGED <<subVars, svc, calc, run, wire>>
    \/ \E fail \in BOOLEAN, status \in ErrorStatuses :
          SyncWrite(fail, status) /\ UNCHANGED <<subVars, svc, calc, run, wire>>

CallSpec == CallInit /\ [][CallNext]_vars

\* a subscriber with its read loop and an owner that stops it; the message
\* listen() yielded is checked and handled in two steps
StopInit ==
    /\ EngineInit
    /\ SubscriberInit({Callback("True", "True")}, {FALSE})
    /\ NoService

\* the steps the thread of the read loop takes by itself
StopLoop ==
    \/ Check /\ UNCHANGED <<engineVars, svcVars>>
    \/ Handle /\ UNCHANGED <<engineVars, svcVars>>
    \/ ListenEnds /\ UNCHANGED <<engineVars, svcVars>>
    \/ \E outcome \in ReconnectOutcomes : WakeConn(outcome) /\ UNCHANGED <<engineVars, svcVars>>
    \/ WakeErr /\ UNCHANGED <<engineVars, svcVars>>

StopNext ==
    \/ \E outcome \in ConnectOutcomes : Connect(outcome) /\ UNCHANGED <<engineVars, svcVars>>
    \/ StartSubscription(TRUE) /\ UNCHANGED <<engineVars, svcVars>>
    \/ StopSubscription /\ UNCHANGED <<engineVars, svcVars>>
    \/ \E m \in LoopMessages : Receive(m[1], m[2]) /\ UNCHANGED <<engineVars, svcVars>>
    \/ \E exc \in {"ConnectionError", "Exception"} :
          /\ sub.reconnect_count + obs.others < MaxDrops
          /\ ListenRaises(exc)
          /\ UNCHANGED <<engineVars, svcVars>>
    \/ StopLoop

\* the thread of the read loop is scheduled and its sleeps end
StopSpec == StopInit /\ [][StopNext]_vars /\ WF_vars(StopLoop)

\* what the broker delivers: the confirmation of the subscription and two
\* fixture updates with the fixtures in different order
OrderMessages ==
    {<<"subscribe", MalformedData>>,
     <<"message", ObjectData("match_updates", "2.0", Payload(WireMatches, <<>>, "true"))>>,
     <<"message", ObjectData("match_updates", "1.0",
                             Payload(<<WireMatches[2], WireMatches[1]>>, <<>>, "true"))>>}

\* a subscriber with its read loop on a connection that stays up, the broker
\* delivering while the loop handles
OrderInit ==
    /\ EngineInit
    /\ SubscriberInit({Callback("True", "True"), Callback("TypeError", "True")}, {FALSE})
    /\ NoService

OrderNext ==
    \/ Connect("ok") /\ UNCHANGED <<engineVars, svcVars>>
    \/ StartSubscription(TRUE) /\ UNCHANGED <<engineVars, svcVars>>
    \/ StopSubscription /\ UNCHANGED <<engineVars, svcVars>>
    \/ \E m \in OrderMessages : Deliver(m) /\ UNCHANGED <<engineVars, svc, calc, run, api>>
    \/ Take /\ UNCHANGED <<engineVars, svc, calc, run, api>>
    \/ TakenCheck /\ UNCHANGED <<engineVars, svc, calc, run, api>>
    \/ TakenHandle /\ UNCHANGED <<engineVars, svc, calc, run, api>>
    \/ ListenRaises("Exception") /\ UNCHANGED <<engineVars, svcVars>>
    \/ ListenEnds /\ UNCHANGED <<engineVars, svcVars>>
    \/ WakeErr /\ UNCHANGED <<engineVars, svcVars>>

OrderSpec == OrderInit /\ [][OrderNext]_vars

\* what the broker delivers to a subscriber whose counters are watched:
\* text that is no JSON object, a message of another type, and fixture
\* updates of every schema route, with and without changes
CountMessages ==
    {<<"subscribe", MalformedData>>, <<"message", MalformedData>>, <<"message", ArrayData>>,
     <<"message", ObjectData("processing_status", "2.0", NoPayload)>>,
     <<"message", ObjectData("match_updates", "2.0", Payload(WireMatches, <<>>, "true"))>>,
     <<"message", ObjectData("match_updates", Absent, Payload(WireMatches, <<>>, "true"))>>,
     <<"message", ObjectData("match_updates", "9.9", Payload(WireMatches, <<>>, "true"))>>,
     <<"message", ObjectData("match_updates", "1.5", Payload(WireMatches, <<>>, "false"))>>}

\* a subscriber whose read loop handles message after message, the callback
\* returning or raising
CountInit ==
    /\ EngineInit
    /\ SubscriberInit({Callback("True", "True"), Callback("False", "False"),
                       Callback("TypeError", "TypeError"), Callback("Exception", "True")},
                      {FALSE})
    /\ NoService

CountNext ==
    \/ Connect("ok") /\ UNCHANGED <<engineVars, svcVars>>
    \/ StartSubscription(TRUE) /\ UNCHANGED <<engineVars, svcVars>>
    \/ \E m \in CountMessages : Deliver(m) /\ UNCHANGED <<engineVars, svc, calc, run, api>>
    \/ Take /\ UNCHANGED <<engineVars, svc, calc, run, api>>
    \/ TakenCheck /\ UNCHANGED <<engineVars, svc, calc, run, api>>
    \/ TakenHandle /\ UNCHANGED <<engineVars, svc, calc, run, api>>
    \/ ListenRaises("Exception") /\ UNCHANGED <<engineVars, svcVars>>
    \/ WakeErr /\ UNCHANGED <<engineVars, svcVars>>

CountSpec == CountInit /\ [][CountNext]_vars

-----------------------------------------------------------------------------
(* The claims.  Last is the invocation that completed last, if hist holds one *)

Completed == {hist[i] : i \in 1..Len(hist)}

InWindow(match) == ParseTid(match.tid) >= TimeMin(DAYS_TO_KEEP_PAST_EVENTS)

\* the callback got past the service check and the type check with a batch
Processed(e) ==
    /\ e.op = "calendar_sync_callback"
    /\ e.note \in {"import_error", "done"}

BatchEvents(evs, F) == {x \in evs : x.matchId \in MatchIdSet(F)}

\* C1: sync_calendar invoked twice in a row with an unchanged fixture, from a
\* calendar with no event of its id and without a failed remote call, leaves
\* exactly one event of that id, and the second invocation issues no insert
\* and no update.
C1_Idempotence ==
    \A e \in Completed :
        (/\ e.op = "sync_calendar"
         /\ e.note = "done"
         /\ e.repeats
         /\ ~e.failed
         /\ ~e.overlapped.any)
        => e.count = 1 /\ e.calls = {}

\* C2: two interleaved sync_calendar invocations on the same fixture id, each
\* a lookup followed by a write, started from a calendar with no event of that
\* id, leave exactly one event of that id.
C2_ConcurrentSafe ==
    \A e \in Completed :
        (/\ e.op = "sync_calendar"
         /\ e.note = "done"
         /\ InWindow(e.match)
         /\ ~e.hadEvent
         /\ ~e.failed
         /\ e.overlapped.same)
        => e.count = 1

\* C3: when the lookup of sync_calendar finds no event for fixture r, it issues
\* exactly one insert and no update, and the inserted event carries
\* matchId = str(r.id), the sync tag and matchHash = generate_match_hash(r).
C3_CreateDecision ==
    \A e \in Completed :
        (e.op = "sync_calendar" /\ e.note = "done" /\ e.found = NoEvent)
        => \E c \in e.calls :
              /\ e.calls = {c}
              /\ c.call = "insert"
              /\ c.body.matchId = str(e.match.matchid)
              /\ c.body.syncTag = SYNC_TAG
              /\ c.body.matchHash = generate_match_hash(e.match)

C3_Witness ==
    \E e \in Completed :
        /\ e.op = "sync_calendar"
        /\ e.found = NoEvent
        /\ \E c \in e.calls : c.call = "insert" /\ c.ok
        /\ e.hashAfter = {generate_match_hash(e.match)}
        /\ e.count = 1

\* C4: when the lookup finds an event of r's id whose stored matchHash differs
\* from generate_match_hash(r), sync_calendar issues exactly one update,
\* addressed to the id of that event, and no insert; after the update went
\* through, the matchHash stored in the event is generate_match_hash(r).
C4_UpdateDecision ==
    \A e \in Completed :
        (/\ e.op = "sync_calendar"
         /\ e.note = "done"
         /\ e.found # NoEvent
         /\ e.found.matchHash # generate_match_hash(e.match))
        => \E c \in e.calls :
              /\ e.calls = {c}
              /\ c.call = "update"
              /\ c.eventId = e.found.id
              /\ c.ok => e.hashAfter = {generate_match_hash(e.match)}

C4_Witness ==
    \E e \in Completed :
        /\ e.op = "sync_calendar"
        /\ e.match = M1B
        /\ e.found # NoEvent
        /\ e.found.matchHash = generate_match_hash(M1A)
        /\ \E c \in e.calls : c.call = "update" /\ c.ok
        /\ e.hashAfter = {generate_match_hash(M1B)}
        /\ e.count = 1

\* C5: delete_orphaned_events(F, days) never deletes an event whose matchId is
\* in the id set of F, never an event without the sync tag, never an event
\* that starts before today minus days, and changes no other event.
C5_SweepDeletesOnlyOrphans ==
    \A e \in Completed :
        e.op = "delete_orphaned_events"
        => /\ \A d \in e.deleted :
                /\ d.matchId \notin MatchIdSet(e.F)
                /\ d.syncTag = SYNC_TAG
                /\ d.day >= Today - e.days
           /\ e.after = e.before \ e.deleted
           /\ e.deleted \subseteq e.before

C5_Witness ==
    \E e \in Completed :
        /\ e.op = "delete_orphaned_events"
        /\ e.deleted # {}
        /\ ForeignEvent \in e.after
        /\ \E x \in e.after : x.syncTag = SYNC_TAG /\ x.matchId \in MatchIdSet(e.F)

\* C6: a sync-tagged event that starts 3 days before today and whose matchId
\* is not in the fixture set is deleted by a sweep with a retention window of
\* 7 days and is not deleted by a sweep with a retention window of 1 day.
C6_RetentionWindow ==
    \A e \in Completed :
        (e.op = "delete_orphaned_events" /\ ~e.failed)
        => \A x \in e.before :
              (/\ x.syncTag = SYNC_TAG
               /\ x.day = Today - 3
               /\ x.matchId \notin MatchIdSet(e.F))
              => /\ e.days = 7 => x \in e.deleted /\ x \notin e.after
                 /\ e.days = 1 => x \notin e.deleted /\ x \in e.after

C6_Witness ==
    \E e \in Completed :
        /\ e.op = "delete_orphaned_events"
        /\ ~e.failed
        /\ e.days = 7
        /\ \E x \in e.deleted :
              x.syncTag = SYNC_TAG /\ x.day = Today - 3 /\ x.matchId = str(2)

\* C7: after an invocation of the engine with fixture set F, a batch handled
\* by calendar_sync_callback included, no sync-tagged event inside the
\* retention window has a matchId that is absent from F.
C7_NoLeftovers ==
    \A e \in Completed :
        (Processed(e) \/ (e.op = "delete_orphaned_events" /\ ~e.failed))
        => \A x \in ListBySyncTag(e.after, IF Processed(e)
                                             THEN DAYS_TO_KEEP_PAST_EVENTS
                                             ELSE e.days) :
              x.matchId \in MatchIdSet(e.F)

\* C8: calendar_sync_callback returns true if a fixture of the batch succeeded
\* or the batch is empty, and returns false only if at least one fixture was
\* attempted and every attempted fixture failed.
C8_BatchResultRule ==
    \A e \in Completed :
        (e.op = "calendar_sync_callback" /\ e.note \in {"empty", "import_error", "done"})
        => /\ e.F = <<>> => e.ret = "True"
           /\ e.ret = "False" => e.attempted >= 1
           /\ e.ret \in {"True", "False"}

\* C9: within one calendar_sync_callback invocation no failure of a fixture
\* aborts the batch: sync_calendar is attempted once for every fixture of it.
C9_PerFixtureIndependence ==
    \A e \in Completed :
        Processed(e) => e.attempted = Len(e.F)

\* C10: for a batch of 3 fixtures in which the remote create call of fixture 2
\* raises, the callback returns true and exactly 2 events of the batch exist
\* afterwards.
C10_PartialBatchRecovery ==
    \A e \in Completed :
        (/\ Processed(e)
         /\ Len(e.F) = 3
         /\ e.throws = {str(2)}
         /\ BatchEvents(e.before, e.F) = {})
        => /\ e.ret = "True"
           /\ Cardinality(BatchEvents(e.after, e.F)) = 2

-----------------------------------------------------------------------------
(* The claims about the subscriber *)

FixtureUpdate(data) == data.json = "object" /\ data.type = "match_updates"

Changed(data) == data.payload.present /\ data.payload.has_changes = "true"

\* C11: a match_updates message with a schema_version that is not recognised
\* goes through the legacy handler: the callback is invoked as for the same
\* message with schema_version "1.0", with the fixture list of the payload;
\* the message is no error, and of the schema counters only the
\* unknown-schema counter grows, by one.
C11_SchemaFallback ==
    LET l == obs.last
        twin == _handle_message(l.pre, [l.data EXCEPT !.schema_version = "1.0"])
    IN (/\ l.handled
        /\ FixtureUpdate(l.data)
        /\ l.data.schema_version \notin {Absent, "1.0", "1.5", "2.0"})
       => /\ l.exc = None
          /\ Len(l.calls) = Len(twin.calls)
          /\ \A i \in 1..Len(l.calls) :
                /\ l.calls[i].shape = twin.calls[i].shape
                /\ l.calls[i].matches = twin.calls[i].matches
                /\ l.calls[i].matches = l.data.payload.matches
          /\ (Changed(l.data) /\ l.pre.calendar_sync_callback.configured)
                => Len(l.calls) >= 1
          /\ l.post.errors = l.pre.errors
          /\ l.post.messages_processed = l.pre.messages_processed + 1
          /\ l.post.schema_unknown_messages = l.pre.schema_unknown_messages + 1
          /\ l.post.schema_v1_messages = l.pre.schema_v1_messages
          /\ l.post.schema_v2_messages = l.pre.schema_v2_messages

C11_Witness ==
    /\ obs.last.handled
    /\ obs.last.data.schema_version = "9.9"
    /\ Len(obs.last.calls) = 1
    /\ obs.last.calls[1].matches = WireMatches
    /\ sub.schema_unknown_messages = 1
    /\ sub.errors = 0

\* C12: the callback is invoked for a raw message if and only if the payload
\* parses, the type is match_updates, payload.metadata.has_changes is true and
\* a callback is configured; a message of another type or without a true
\* has_changes causes no invocation and no increment of the error counter.
C12_DispatchCondition ==
    LET l == obs.last
    IN l.handled
       => /\ Len(l.calls) >= 1
                <=> (/\ FixtureUpdate(l.data)
                     /\ Changed(l.data)
                     /\ l.pre.calendar_sync_callback.configured)
          /\ (l.data.json = "object" /\ ~(FixtureUpdate(l.data) /\ Changed(l.data)))
                => l.calls = <<>> /\ l.post.errors = l.pre.errors

C12_Witness ==
    /\ obs.last.handled
    /\ FixtureUpdate(obs.last.data)
    /\ obs.last.data.payload.has_changes = "false"
    /\ obs.last.pre.calendar_sync_callback.configured
    /\ obs.last.calls = <<>>
    /\ sub.errors = 0
    /\ sub.messages_processed = 1

\* C13: _handle_message never raises to the read loop; a payload that is not a
\* JSON object adds exactly one to the error counter, invokes no callback and
\* does not add to messages_processed, and the loop goes on listening.
C13_MalformedContained ==
    LET l == obs.last
    IN l.handled
       => /\ l.exc = None
          /\ l.then = "listen"
          /\ l.post.messages_received = l.pre.messages_received + 1
          /\ l.data.json # "object"
                => /\ l.post.errors = l.pre.errors + 1
                   /\ l.calls = <<>>
                   /\ l.post.messages_processed = l.pre.messages_processed

C13_Witness ==
    /\ obs.last.handled
    /\ obs.last.data = MalformedData
    /\ sub.errors = obs.last.pre.errors + 1
    /\ sub.messages_processed = 0
    /\ loop.pc = "listen"
    /\ sub.running

\* C14: for a message of any schema version, when the invocation of the
\* callback with the envelope dict raises TypeError the callback is invoked a
\* second time with the flat fixture list, and it is invoked at most twice.
C14_DualCallingConvention ==
    LET l == obs.last
    IN (l.handled /\ l.calls # <<>>)
       => /\ Len(l.calls) <= 2
          /\ l.calls[1].shape = "dict"
          /\ Invoke(l.pre.calendar_sync_callback, l.calls[1]) = "TypeError"
                => /\ Len(l.calls) = 2
                   /\ l.calls[2].shape = "list"
                   /\ l.calls[2].matches = l.calls[1].matches

\* C15: _has_high_priority_changes(changes) is true if and only if an entry
\* has priority "high" or a category among time, date, venue and referee
\* change; it is false for the empty list; the high_priority of the envelope
\* of an enhanced message is this value for the message's detailed_changes.
C15_PriorityEvaluator ==
    LET l == obs.last
        changes == l.data.payload.detailed_changes
        high == \E i \in 1..Len(changes) :
                    \/ changes[i].priority = "high"
                    \/ changes[i].category \in
                          {"time_change", "date_change", "venue_change", "referee_change"}
    IN (l.handled /\ FixtureUpdate(l.data) /\ l.data.schema_version = "2.0"
            /\ l.calls # <<>>)
       => /\ _has_high_priority_changes(changes) = high
          /\ ~_has_high_priority_changes(<<>>)
          /\ l.calls[1].detailed_changes = changes
          /\ l.calls[1].high_priority = high

C15_Witness ==
    /\ obs.last.handled
    /\ obs.last.data.schema_version = "2.0"
    /\ obs.last.data.payload.detailed_changes
          = <<Change("contact_update", "low"), Change("referee_change", "low")>>
    /\ Len(obs.last.calls) = 1
    /\ obs.last.calls[1].high_priority

\* C16: the delays the read loop sleeps for consecutive failures are 1, 2, 4,
\* ... seconds, doubling up to the cap of 60; every ConnectionError is
\* followed by one call of _reconnect; a handled message resets the delay to 1.
C16_BackoffGrowthAndReset ==
    /\ \A i \in 1..Len(obs.streak) : obs.streak[i] = Min(2 ^ (i - 1), 60)
    /\ obs.reconnects = IF loop.pc = "sleep_conn" THEN obs.conn - 1 ELSE obs.conn
    /\ (obs.last.handled /\ loop.pc = "listen") => loop.retry_delay = 1

C16_Witness ==
    /\ obs.reset_from = 8
    /\ obs.streak = <<1, 2, 4>>
    /\ obs.conn = 3
    /\ obs.reconnects = 3

\* C17: a ConnectionError of listen() adds one to reconnect_count, leaves the
\* error counter and leads to one call of _reconnect; any other exception adds
\* one to the error counter, leaves reconnect_count and leads to no call of
\* _reconnect.
C17_FailureClassification ==
    LET e == obs.event
    IN e.completed
       => /\ e.kind = "ConnectionError"
                => /\ e.post_reconnect_count = e.pre_reconnect_count + 1
                   /\ e.post_errors = e.pre_errors
                   /\ e.reconnects = 1
          /\ e.kind # "ConnectionError"
                => /\ e.post_errors = e.pre_errors + 1
                   /\ e.post_reconnect_count = e.pre_reconnect_count
                   /\ e.reconnects = 0

C17_Witness ==
    /\ obs.event.completed
    /\ obs.event.kind = "Exception"
    /\ obs.event.pre_reconnect_count >= 1
    /\ sub.errors = obs.event.pre_errors + 1

\* C18: while self.running is true nothing ends _listen_for_messages: the loop
\* is left only after stop_subscription has cleared the flag.
C18_ExitsOnlyOnStop ==
    loop.pc = "exited" => obs.stop_called /\ ~obs.exit_running

C18_Witness ==
    /\ loop.pc = "exited"
    /\ sub.reconnect_count >= 2
    /\ sub.errors >= 2
    /\ sub.messages_received >= 1
    /\ sub.pubsub # "subscribed"

\* C19: once the stop flag is set no message is handed to _handle_message, and
\* when the flag was set during a backoff sleep the loop is left without a
\* call of _reconnect.
C19_CancellationPoints ==
    /\ obs.last.handled => ~obs.last.stopped
    /\ (obs.event.completed /\ obs.event.stopped_in_sleep) => obs.event.reconnects = 0

\* C20: when _connect returned false, get_status reports connected = false and
\* a following start_subscription returns false and starts no thread.
C20_FailedConnectDisconnected ==
    (obs.connect = "False" /\ sub.reconnect_count = 0)
    => /\ ~get_status(sub).connected
       /\ obs.start.called => ~obs.start.ret /\ ~obs.start.thread

-----------------------------------------------------------------------------
(* The claims about the service wrapper and the lifecycle of the subscriber *)

\* C21: start_redis_subscription() returns true only if start_subscription()
\* of the subscriber succeeded; when the subscriber could not connect or
\* subscribe the caller receives false.
C21_StartupFailureReported ==
    (svc.last.op = "start" /\ svc.last.ret) => svc.last.inner = "True"

\* C23: after any sequence of start, stop and restart calls on one subscriber
\* at most one read-loop thread of that subscriber is running.
C23_OneLiveReadLoop ==
    Cardinality(Alive(svc.threads)) <= 1

\* C28: handle_manual_sync_request(matches) hands the fixture list to the sync
\* callback as a broker-delivered legacy message does, and returns true exactly
\* when the callback reports success: false when it reports failure or raises.
C28_ManualEqualsBroker ==
    LET broker == _handle_legacy_schema(
                      [sub EXCEPT !.calendar_sync_callback = svc.calendar_sync_callback],
                      ObjectData("match_updates", "1.0",
                                 Payload(svc.last.arg[1].matches, <<>>, "true")),
                      "1.0")
    IN (svc.last.op = "manual" /\ svc.last.arg # <<>>)
       => /\ broker.calls # <<>>
          /\ broker.calls[1].matches = svc.last.arg[1].matches
          /\ svc.last.ret <=> svc.last.outcome = "True"

\* C22: _reconnect() first closes the old subscription handle and the old
\* client, and returns true only if the new connection was established and
\* every channel was subscribed; if the connect or a subscribe fails it
\* returns false, and the thread that called it goes on with its loop.
C22_ReconnectResult ==
    LET c == svc.reconnect
    IN c.called
       => /\ c.closes = (IF c.pubsub_before # None THEN <<"pubsub">> ELSE <<>>)
                           \o (IF c.client_before # None THEN <<"client">> ELSE <<>>)
          /\ c.ret <=> c.outcome = "ok"
          /\ c.ret => c.client_after = "client" /\ c.pubsub_after = "subscribed"
          /\ ~c.ret => c.pubsub_after # "subscribed"
          /\ c.outcome \in {"from_url_raises", "ping_raises"}
                => c.pubsub_after = "closed"
          /\ \A i \in 1..Len(svc.threads) : svc.threads[i] \in {"listen", "sleep", "exited"}

C22_Witness ==
    /\ svc.reconnect.called
    /\ svc.reconnect.pubsub_before = "subscribed"
    /\ svc.reconnect.outcome = "subscribe_raises"
    /\ ~svc.reconnect.ret
    /\ svc.reconnect.closes = <<"pubsub", "client">>
    /\ svc.threads = <<"listen">>
    /\ sub.running

\* C24: when the connection drops while the subscriber is running and the
\* broker accepts connections again, the read loop eventually holds a live
\* subscription again, unless it is stopped, also when _reconnect() attempts
\* failed in between.
C24_TransportRecovers ==
    (sub.running /\ ~svc.broker)
        ~> (~sub.running \/ (svc.broker /\ sub.pubsub = "subscribed"))


\* C25: generate_match_hash is order-independent for officials: a fixture
\* and the same fixture with its domaruppdraglista permuted have the same hash
C25_OfficialsOrderIndependent ==
    (calc.step = "hashed" /\ calc.kind = "reorder") => calc.h1 = calc.h2

\* two different officials fetched in the other order, and both hashes computed
C25_Witness ==
    /\ calc.step = "hashed"
    /\ calc.kind = "reorder"
    /\ Len(calc.r1.domaruppdraglista) = 2
    /\ calc.r1.domaruppdraglista[1] # calc.r1.domaruppdraglista[2]
    /\ calc.r2.domaruppdraglista = <<calc.r1.domaruppdraglista[2],
                                     calc.r1.domaruppdraglista[1]>>
    /\ calc.h1 # NoHash
    /\ calc.h1 = calc.h2

\* C26: two observations of the same fixture id whose content written into
\* the destination event differs have different content hashes
C26_HashDetectsEveryChange ==
    (/\ calc.step = "hashed"
     /\ calc.kind = "observe"
     /\ calc.r1.matchid = calc.r2.matchid
     /\ EventContent(calc.r1) # EventContent(calc.r2))
    => calc.h1 # calc.h2


\* C27: a run of main with the delete option that went through deletes the
\* events of the fixture ids of F instead of creating or updating them: it
\* issues no insert and no update, it deletes only events of these ids, and
\* when it ends the calendar holds no event of a fixture id of F
C27_FullDeleteMode ==
    (run.started /\ run.ended /\ run.delete /\ ~TableDataRaises(run.F))
    => /\ run.calls = {}
       /\ \A e \in run.deleted : e.matchId \in MatchIdSet(run.F)
       /\ \A i \in 1..Len(run.F) : EventsOf(events, run.F[i]) = {}

\* C29: when main returns from a batch with a fixture whose tid does not
\* parse, no insert and no update was issued for that fixture, and every
\* other fixture of the batch has an event that carries its hash
C29_BadStartTimeNotFatal ==
    (run.started /\ run.ended /\ \E i \in 1..Len(run.F) : ~TidParses(run.F[i].tid))
    => \A i \in 1..Len(run.F) :
          IF TidParses(run.F[i].tid)
          THEN \E e \in EventsOf(events, run.F[i]) :
                  e.matchHash = generate_match_hash(run.F[i])
          ELSE \A c \in run.calls : c.body.matchId # str(run.F[i].matchid)

\* C30: sync_calendar of a fixture that starts before today minus
\* DAYS_TO_KEEP_PAST_EVENTS days and has an event already issues no insert,
\* and the calendar holds no two events of its id afterwards
C30_OutOfWindowNotRecreated ==
    \A e \in Completed :
        (/\ e.op = "sync_calendar"
         /\ e.note = "done"
         /\ ParseTid(e.match.tid) < TimeMin(DAYS_TO_KEEP_PAST_EVENTS)
         /\ e.hadEvent
         /\ ~e.failed
         /\ ~e.overlapped.any)
        => /\ \A c \in e.calls : c.call # "insert"
           /\ e.count <= 1


\* C31: when the list call of find_event_by_match_id fails for a fixture of
\* the window that has an event the list call would have returned,
\* sync_calendar issues no insert and the calendar holds no second event of
\* its id
C31_FailedLookupNoWrite ==
    \A e \in Completed :
        (/\ e.op = "sync_calendar"
         /\ e.note = "done"
         /\ InWindow(e.match)
         /\ e.hadEvent
         /\ \E x \in ListByMatchId(events, e.match.matchid, DAYS_TO_KEEP_PAST_EVENTS) :
               \A c \in e.calls : c.eventId # x.id
         /\ e.found = NoEvent
         /\ e.failed
         /\ \A c \in e.calls : c.ok
         /\ ~e.overlapped.any)
        => /\ \A c \in e.calls : c.call # "insert"
           /\ e.count <= 1


\* the position of the last fixture of F with the id of F[i]
LastOfId(F, i) ==
    CHOOSE j \in 1..Len(F) :
        /\ F[j].matchid = F[i].matchid
        /\ \A k \in 1..Len(F) : F[k].matchid = F[i].matchid => k <= j

\* C32: after a batch in which two fixtures share an id, run on a calendar
\* with at most one event of that id, the calendar holds exactly one event
\* of that id, with the start, the venue and the hash of the later fixture
C32_LastWriteWins ==
    (/\ run.started
     /\ run.ended
     /\ \A i \in 1..Len(run.F) : run.F[i].has_matchid /\ TidParses(run.F[i].tid))
    => \A i \in 1..Len(run.F) :
          (/\ \E j \in 1..Len(run.F) : j # i /\ run.F[j].matchid = run.F[i].matchid
           /\ Cardinality(EventsOf(run.before, run.F[i])) <= 1)
          => LET last == run.F[LastOfId(run.F, i)]
             IN \E e \in events :
                   /\ EventsOf(events, last) = {e}
                   /\ e.day = ParseTid(last.tid)
                   /\ e.location = last.anlaggningnamn
                   /\ e.matchHash = generate_match_hash(last)

\* C35: two runs of calendar_sync_callback with the same fixture list, from
\* the same calendar, that differ only in high_priority and detailed_changes
\* of the envelope issue the same write calls in the same order and return
\* the same boolean
C35_PriorityAdvisoryOnly ==
    (/\ run.ended
     /\ run.prev.ended
     /\ run.caller = "callback"
     /\ run.prev.caller = "callback"
     /\ run.data.kind = "dict"
     /\ run.prev.data.kind = "dict"
     /\ run.data.matches = run.prev.data.matches
     /\ run.before = run.prev.before)
    => /\ run.writes = run.prev.writes
       /\ run.ret = run.prev.ret

\* a batch of two fixtures announced as high priority with a venue change,
\* after the same batch announced as normal with no change
C35_Witness ==
    /\ run.ended
    /\ run.prev.ended
    /\ run.caller = "callback"
    /\ run.prev.caller = "callback"
    /\ run.data.kind = "dict"
    /\ run.prev.data.kind = "dict"
    /\ run.data.matches = run.prev.data.matches
    /\ Len(run.data.matches) = 2
    /\ run.before = run.prev.before
    /\ run.data.high_priority
    /\ ~run.prev.data.high_priority
    /\ run.data.detailed_changes # <<>>
    /\ run.prev.data.detailed_changes = <<>>
    /\ run.ret = run.prev.ret
    /\ run.ret \in {"True", "False"}


\* the create attempts made, and the statuses they were answered with
CreateStatuses ==
    [i \in 1..Cardinality({j \in 1..Len(api.calls) : api.calls[j].call = "createContact"}) |->
        LET js == {j \in 1..Len(api.calls) : api.calls[j].call = "createContact"}
            j == CHOOSE x \in js : Cardinality({y \in js : y <= x}) = i
        IN api.calls[j].status]

\* the sleeps other than the one second between two calls
BackoffSleeps == SelectSeq(api.sleeps, LAMBDA d : d # DELAY_BETWEEN_CONTACT_CALLS)

\* C34: create_google_contact makes at most MAX_RETRIES_GOOGLE_API create
\* attempts; when all are answered with 429 it makes exactly 5, sleeps
\* 60 * 2^attempt seconds after each but the last and returns None; a 429
\* and then a success returns the contact id after exactly 2 attempts; an
\* HTTP error other than 429 and 409 on the first attempt returns None after
\* exactly 1 attempt
C34_BoundedContactRetry ==
    /\ Len(CreateStatuses) <= MAX_RETRIES_GOOGLE_API
    /\ BackoffSleeps = [a \in 1..Len(BackoffSleeps) |-> 60 * 2 ^ (a - 1)]
    /\ api.done =>
          /\ (\A i \in 1..Len(api.calls) : api.calls[i].status = 429)
                => /\ Len(CreateStatuses) = 5
                   /\ BackoffSleeps = <<60, 120, 240, 480>>
                   /\ api.ret = None
          /\ (api.calls = <<ApiCall("createContact", 429), ApiCall("createContact", 200)>>
              \/ api.calls = <<ApiCall("createContact", 429), ApiCall("createContact", 200),
                               ApiCall("modify", 200)>>)
                => /\ api.ret = "contact_id"
                   /\ BackoffSleeps = <<60>>
          /\ (CreateStatuses # <<>> /\ CreateStatuses[1] = 500)
                => /\ api.ret = None
                   /\ Len(api.calls) = 1

\* five create attempts, all answered with 429
C34_Witness ==
    /\ api.done
    /\ api.op = "create_google_contact"
    /\ CreateStatuses = <<429, 429, 429, 429, 429>>
    /\ api.sleeps = <<60, 1, 120, 1, 240, 1, 480, 1>>
    /\ api.ret = None


\* C33: a remote call of sync_calendar (lookup, insert or update) that is
\* answered with a rate-limit response is made again after a sleep, before
\* sync_calendar returns
C33_RateLimitRetried ==
    (api.op = "sync_calendar" /\ api.done)
    => \A i \in 1..Len(api.calls) :
          api.calls[i].status = 429
          => /\ \E j \in (i + 1)..Len(api.calls) : api.calls[j].call = api.calls[i].call
             /\ api.sleeps # <<>>


C38_DelayBounds ==
    /\ [](loop.pc \notin {"none", "exited"}
            => loop.retry_delay \in {1, 2, 4, 8, 16, 32, 60})
    /\ [][(/\ loop.pc \notin {"none", "exited"}
           /\ loop'.pc \notin {"none", "exited"}
           /\ loop'.retry_delay # loop.retry_delay)
          => \/ /\ loop.pc \in {"sleep_conn", "sleep_err"}
                /\ loop'.retry_delay = Min(2 * loop.retry_delay, 60)
             \/ /\ loop.pc = "got"
                /\ loop.message.type = "message"
                /\ loop'.retry_delay = 1]_vars
    /\ [][(loop.pc \in {"sleep_conn", "sleep_err"} /\ loop'.pc = "listen")
          => /\ loop'.retry_delay = Min(2 * loop.retry_delay, 60)
             /\ loop'.retry_delay > 1]_vars

\* the delay is at the ceiling after failures of both kinds, the last
\* _reconnect having restored the subscription
C38_Witness ==
    /\ loop.pc = "listen"
    /\ loop.retry_delay = 60
    /\ obs.streak = <<1, 2, 4, 8, 16, 32, 60>>
    /\ obs.others > 0
    /\ obs.conn > 0
    /\ sub.pubsub = "subscribed"


SchemaCounters(s) ==
    s.schema_v2_messages + s.schema_v1_messages + s.schema_unknown_messages

C40_EmptyFetchNoChange ==
    (run.started /\ run.caller = "main" /\ run.F = <<>>)
        => /\ run.ended
           /\ pc["t1"] = "idle"
           /\ events = run.before
           /\ run.deleted = {}
           /\ run.calls = {}
           /\ run.writes = <<>>
           /\ hist = <<[BaseEntry EXCEPT !.op = "main", !.note = "empty"]>>

\* the calendar holds an event of an earlier run that the sweep of an empty
\* list would delete; main() ran with --delete and an empty fetch
C40_Witness ==
    /\ run.started
    /\ run.caller = "main"
    /\ run.F = <<>>
    /\ run.delete
    /\ run.prev.ended
    /\ run.prev.writes # <<>>
    /\ Orphans(events, <<>>, DAYS_TO_KEEP_PAST_EVENTS, FALSE) # {}
    /\ events = run.before

====
